---- MODULE Spec2Model ----
(***************************************************************************)
(* Ovelo: the focus classification pipeline                                *)
(*   FocusAnalyzer.process_day   (src/python/analyzer.py)                  *)
(*   get_today_data              (src/python/server.py)                    *)
(* and the reports derived from it                                         *)
(*   prepare_replay_timeline, generate_passport_data,                      *)
(*   _map_app_to_category, generate_reflection (src/python/analyzer.py)    *)
(*   get_replay_data, get_passport_data        (src/python/server.py)      *)
(* the tracker that records the samples                                    *)
(*   BehaviorTracker             (src/python/tracker.py)                   *)
(* and the user profile with the morning calibration                       *)
(*   LearningEngine.load_profile (src/python/learning.py)                  *)
(*   morning_calibration, calibrate_and_reflect (src/python/analyzer.py)   *)
(*                                                                         *)
(* Conventions                                                             *)
(*  - Python lists are sequences; a Python index i (0-based) is position   *)
(*    i+1 of the sequence.  Slice(s, a, b) is s[a:b] for 0 <= a.           *)
(*  - An optional value (None or v) is the sequence <<>> or <<v>>.         *)
(*  - Counts and timestamps are integers.  A float that the code computes  *)
(*    from them by division (an intensity, an average) is an exact         *)
(*    fraction <<num, den>> in lowest terms; a float comparison is made on *)
(*    the cross products, which agrees with the float result for every     *)
(*    magnitude the model reaches.  Where double rounding changes an       *)
(*    integer result (180 * 0.7, int(n * (P / 100.0)), int(i * (n / 120))) *)
(*    the rounded value is modelled, see the definitions.                  *)
(*  - max(set(xs), key=xs.count) returns the first value of maximal count  *)
(*    in the iteration order of the set, which for strings depends on the  *)
(*    hash seed of the process: hash_order is that order.                  *)
(*  - A handler that ends with an uncaught exception ends at pc = "raised" *)
(*    with the exception's name in raised.                                 *)
(*  - A window label is a string; Spelling gives its characters where the  *)
(*    code looks inside it (lower(), substring tests).                     *)
(***************************************************************************)
EXTENDS Integers, Sequences, FiniteSets, TLC

VARIABLES
    data,               \* the stored sample sequence (tracker.data / the call's raw data)
    reference,          \* the reference_data argument of a direct process_day call
    focus_percentile,   \* self.thresholds.get('focus_percentile'): <<>> or <<P>>
    hash_order,         \* iteration order of a set of strings in this process
    request,            \* the call that this run makes: "process_day", "today", "replay",
                        \* "passport", "reflection" or "category"; "profile" for a run
                        \* of profile calls
    pc,                 \* "start", then where the one call of this run ended: "processed",
                        \* "served", "replayed", "reported", "mapped", "reflected" or "raised"
    raised,             \* the uncaught exception of the call: <<>> or <<name>>
    raw_data,           \* process_day: the raw_data argument of the call
    reference_data,     \* process_day: the reference_data argument of the call
    micro_states,       \* process_day: local micro_states
    activity_threshold, \* process_day: local activity_threshold, <<>> until computed
    timeline,           \* process_day: local timeline (before gap insertion)
    result,             \* process_day: the returned 'timeline' (timeline_with_gaps)
    compressed,         \* get_today_data: local compressed_timeline
    response,           \* get_today_data: the returned 'timeline'
    replay_segments,    \* prepare_replay_timeline: the returned segments
    passport_data,      \* generate_passport_data: <<>> (None) or <<report>>
    app_name,           \* the label passed to a call of _map_app_to_category, as its characters
    category,           \* _map_app_to_category: the returned category, <<>> before the call
    compressed_lines,   \* generate_reflection: local compressed_lines
    lock,               \* tracker: the holder of self.lock, "free" when no thread holds it
    interval_records,   \* tracker: the interval dicts created so far, by identity
    current_interval_data, \* tracker: the identity of the dict self.current_interval_data names
    clock,              \* tracker: time.time() of the machine, in seconds
    loop_pc,            \* tracker: where the thread of _loop is
    loop_local,         \* tracker: the locals of _loop (current_window, start_time)
    intervals,          \* tracker: the number of intervals _loop has finished
    callback_pc,        \* tracker: where each listener thread is in its callback
    callback_local,     \* tracker: per listener thread, the counter of the callback under
                        \* way, the dict it loaded and the value it loaded
    fired,              \* tracker: per counter, the input events whose callback has returned
    suppressed,         \* tracker: per counter, the counts of the records that were not appended
    reader_pc,          \* server: where the handler of GET /api/today is
    reader_local,       \* server: the locals of that handler (data, last_24h_data, now) and
                        \* what self.data held when get_data returned
    profile_file,       \* learning: the profile file, <<>> when it does not exist
    heap,               \* learning: the dict objects of the profiles, by identity
    learning_profile,   \* learning: the identity of the dict self.learning.profile names
    analyzer_profile,   \* analyzer: the identity of the dict self.profile names
    analyzer_thresholds, \* analyzer: the identity of the dict self.thresholds names
    service,            \* the outcome of the request of the last calibration to the text
                        \* service, <<>> when it made none
    calibration,        \* calibrate_and_reflect: the returned percentile, <<>> before the call
    profile_pc,         \* the last profile call of this run: "constructed", "calibrated",
                        \* "loaded" or "logged out"
    profile_calls,      \* the number of profile calls of this run
    returned_profile    \* the values of the profile the last load_profile call returned,
                        \* <<>> before the call

analysis_vars == <<data, reference, focus_percentile, hash_order, request, pc, raised, raw_data,
                   reference_data, micro_states, activity_threshold, timeline, result,
                   compressed, response, replay_segments, passport_data, app_name, category,
                   compressed_lines>>

tracker_vars == <<lock, interval_records, current_interval_data, clock, loop_pc, loop_local,
                  intervals, callback_pc, callback_local, fired, suppressed, reader_pc,
                  reader_local>>

profile_vars == <<profile_file, heap, learning_profile, analyzer_profile, analyzer_thresholds,
                  service, calibration, profile_pc, profile_calls, returned_profile>>

vars == <<analysis_vars, tracker_vars, profile_vars>>

---------------------------------------------------------------------------
(* Program constants *)

window_size == 60
lookback == 180
GAP_THRESHOLD == 300
IDLE_COMPRESSION_THRESHOLD == 1800
MAX_BARS == 120
NATURAL_PERCENTILE == 45
FALLBACK_THRESHOLD == 5
DAY_SECONDS == 86400

---------------------------------------------------------------------------
(* Generic helpers *)

Min(a, b) == IF a <= b THEN a ELSE b
Max(a, b) == IF a >= b THEN a ELSE b

RECURSIVE GCD(_, _)
GCD(a, b) == IF b = 0 THEN a ELSE GCD(b, a % b)

\* the float n / d (n >= 0, d > 0) as an exact fraction in lowest terms
Frac(n, d) == LET g == GCD(n, d) IN <<n \div g, d \div g>>

\* s[a:b] of a list, for 0 <= a
Slice(s, a, b) == IF Min(b, Len(s)) <= a THEN <<>> ELSE SubSeq(s, a + 1, Min(b, Len(s)))

Count(s, v) == Cardinality({k \in DOMAIN s : s[k] = v})

\* max(set(xs), key=xs.count) for a non-empty list xs of strings
MostCommon(xs, order) ==
    LET values == {xs[k] : k \in DOMAIN xs}
        count  == [v \in values |-> Count(xs, v)]
        best   == CHOOSE c \in {count[v] : v \in values} : \A v \in values : count[v] <= c
        top    == {v \in values : count[v] = best}
        first  == CHOOSE p \in DOMAIN order :
                      /\ order[p] \in top
                      /\ \A q \in 1..(p - 1) : order[q] \notin top
    IN  order[first]

---------------------------------------------------------------------------
(* process_day, pass 1: micro states (analyzer.py 97-132) *)

\* activity_score = keystrokes + clicks * 2 + scrolls (mouse_distance is read and not used)
ActivityScore(interval) ==
    interval.keystrokes + interval.mouse_clicks * 2 + interval.mouse_scrolls

\* intensity = min(1.0, activity_score / 50.0)
Intensity(score) == IF score >= 50 THEN <<1, 1>> ELSE Frac(score, 50)

MicroClassifyMutBoundary(interval) ==
    IF interval.is_idle THEN "Idle"
    ELSE IF interval.window_switches > 2 THEN "Fragmented"
    ELSE IF ActivityScore(interval) >= 5 THEN "HighFocus"
    ELSE "LowFocus"
MicroClassify(interval) ==
    IF interval.is_idle THEN "Idle"
    ELSE IF interval.window_switches > 2 THEN "Fragmented"
    ELSE IF ActivityScore(interval) > 5 THEN "HighFocus"
    ELSE "LowFocus"

\* the dict appended to micro_states: it has no mouse_clicks and no mouse_scrolls key
MicroState(interval) ==
    [timestamp      |-> interval.timestamp,
     micro_state    |-> MicroClassify(interval),
     intensity      |-> Intensity(ActivityScore(interval)),
     switches       |-> interval.window_switches,
     keystrokes     |-> interval.keystrokes,
     scrolls        |-> interval.mouse_scrolls,
     activity_score |-> ActivityScore(interval),
     active_window  |-> interval.active_window]

MicroPass(raw) == [k \in DOMAIN raw |-> MicroState(raw[k])]

---------------------------------------------------------------------------
(* process_day, threshold strategy (analyzer.py 88-89, 134-159) *)

\* threshold_data = reference_data if reference_data else raw_data
ThresholdData(raw, ref) == IF ref # <<>> THEN ref ELSE raw

\* reference_activity_scores: the scores of the non-idle intervals, in order
ReferenceScoresMutKeepIdle(threshold_data) ==
    [k \in DOMAIN threshold_data |-> ActivityScore(threshold_data[k])]
ReferenceScores(threshold_data) ==
    LET active == SelectSeq(threshold_data, LAMBDA interval : ~interval.is_idle)
    IN  [k \in DOMAIN active |-> ActivityScore(active[k])]

\* sorted(xs, reverse=True) for a list of integers
RECURSIVE SortedDesc(_)
SortedDesc(xs) ==
    IF xs = <<>> THEN <<>>
    ELSE LET m == CHOOSE v \in {xs[k] : k \in DOMAIN xs} : \A k \in DOMAIN xs : xs[k] <= v
         IN  [k \in 1..Count(xs, m) |-> m] \o SortedDesc(SelectSeq(xs, LAMBDA v : v # m))

\* The pairs <<n, P>>, n <= 200 and P an integer of 30..80, for which the double
\* product n * (P / 100.0) falls just below the integer n*P/100, so that int()
\* gives one less than floor(n*P/100).  There is none for P = 45, and for
\* P = 100 the product n * 1.0 is n.
PercentileRoundedDown ==
    {<<50, 58>>, <<90, 70>>, <<100, 57>>, <<100, 58>>, <<170, 70>>,
     <<180, 35>>, <<180, 70>>, <<200, 57>>, <<200, 58>>}

\* threshold_index = int(len(sorted_activities) * (percentile / 100.0))
ThresholdIndex(n, percentile) ==
    ((n * percentile) \div 100) - (IF <<n, percentile>> \in PercentileRoundedDown THEN 1 ELSE 0)

\* STRATEGY A: sorted_activities[threshold_index] if sorted_activities else 5.0
StrategyA(sorted_activities, percentile) ==
    IF sorted_activities # <<>>
    THEN sorted_activities[ThresholdIndex(Len(sorted_activities), percentile) + 1]
    ELSE FALLBACK_THRESHOLD

\* sorted_activities[threshold_index] of line 151 raises IndexError: the list is
\* not empty and the index is not below its length (the index is never negative
\* for a percentile >= 0)
StrategyARaisesMutNoEmptyGuard(sorted_activities, percentile) ==
    ThresholdIndex(Len(sorted_activities), percentile) >= Len(sorted_activities)
StrategyARaises(sorted_activities, percentile) ==
    /\ sorted_activities # <<>>
    /\ ThresholdIndex(Len(sorted_activities), percentile) >= Len(sorted_activities)

\* STRATEGY B: sorted_activities[threshold_index]
\*             if sorted_activities and sorted_activities[threshold_index] > 0 else 5.0
StrategyBMutNoZeroGuard(sorted_activities) ==
    IF sorted_activities # <<>>
    THEN sorted_activities[ThresholdIndex(Len(sorted_activities), NATURAL_PERCENTILE) + 1]
    ELSE FALLBACK_THRESHOLD
StrategyB(sorted_activities) ==
    LET idx == ThresholdIndex(Len(sorted_activities), NATURAL_PERCENTILE)
    IN  IF sorted_activities # <<>> /\ sorted_activities[idx + 1] > 0
        THEN sorted_activities[idx + 1]
        ELSE FALLBACK_THRESHOLD

ActivityThreshold(threshold_data, percentile) ==
    LET sorted_activities == SortedDesc(ReferenceScores(threshold_data))
    IN  IF percentile # <<>>
        THEN StrategyA(sorted_activities, percentile[1])
        ELSE StrategyB(sorted_activities)

---------------------------------------------------------------------------
(* process_day, pass 2: macro states (analyzer.py 161-242) *)

\* xs[lo] + ... + xs[hi] of a list of integers
RECURSIVE SumRange(_, _, _)
SumRange(xs, lo, hi) ==
    IF hi < lo THEN 0
    ELSE IF hi = lo THEN xs[lo]
    ELSE LET mid == (lo + hi) \div 2 IN SumRange(xs, lo, mid) + SumRange(xs, mid + 1, hi)
Sum(xs) == SumRange(xs, 1, Len(xs))

\* window = micro_states[max(0, i - window_size // 2) : min(len, i + window_size // 2)]
Window(micro, i) ==
    Slice(micro, Max(0, i - (window_size \div 2)), Min(Len(micro), i + (window_size \div 2)))

\* dominant_app = max(set(apps), key=apps.count) if apps else "Unknown"
DominantApp(window, order) ==
    LET named == SelectSeq(window, LAMBDA w : w.active_window # "")
        apps == [k \in DOMAIN named |-> named[k].active_window]
    IN  IF apps # <<>> THEN MostCommon(apps, order) ELSE "Unknown"

\* sum(...) / len(window) of lines 170, 172 and 174 raises ZeroDivisionError for
\* an empty window
EmptyWindow(micro) == \E i \in 0..(Len(micro) - 1) : Window(micro, i) = <<>>

\* idle_count > len(window) * 0.8: the double product is the exact 4*len/5
\* rounded, and it compares with an integer count as the exact value does
MostlyIdleMutInclusive(idle_count, window_len) == 5 * idle_count >= 4 * window_len
MostlyIdle(idle_count, window_len) == 5 * idle_count > 4 * window_len

\* the if / elif chain of lines 186-204
Classify(window, threshold) ==
    LET n            == Len(window)
        sum_switches == Sum([k \in 1..n |-> window[k].switches])
        sum_activity == Sum([k \in 1..n |-> window[k].activity_score])
        idle_count   == Cardinality({k \in DOMAIN window : window[k].micro_state = "Idle"})
    IN  IF MostlyIdle(idle_count, n)
            THEN [state |-> "Idle", sub_type |-> "Generic"]
        ELSE IF sum_activity >= threshold * n
            THEN [state |-> "Focus Peak", sub_type |-> "Deep Work"]
        ELSE IF 2 * sum_activity >= threshold * n
            THEN [state |-> "Light Focus", sub_type |-> "Active Work"]
        ELSE IF sum_switches > 2 * n
            THEN [state |-> "Drift Zone", sub_type |-> "Fragmented"]
        ELSE [state |-> "Drift Zone", sub_type |-> "Passive"]

\* lookback * 0.7 is the double 125.99999999999999: an integer count exceeds it
\* from 126 on
RECOVERY_MIN_ACTIVE == 126

ActiveStates == {"Focus Peak", "Light Focus", "Drift Zone"}

\* line 221: if i > lookback
PastLookbackMutInclusive(i) == i >= lookback
PastLookback(i) == i > lookback

\* lines 221-229, for a point classified Idle: tl is the timeline built so far
IsRecovery(i, tl) ==
    /\ PastLookback(i)
    /\ LET past_window  == Slice(tl, i - lookback, i)
           active_count == Cardinality({k \in DOMAIN past_window :
                                           past_window[k].state \in ActiveStates})
       IN  active_count >= RECOVERY_MIN_ACTIVE

\* the dict appended to timeline for index i; current has no mouse_clicks and no
\* mouse_scrolls key, so current.get(..., 0) is 0
MacroPoint(micro, threshold, order, i, tl) ==
    LET current == micro[i + 1]
        window  == Window(micro, i)
        c       == Classify(window, threshold)
        final   == IF c.state = "Idle" /\ IsRecovery(i, tl)
                   THEN [state |-> "Recovery Point", sub_type |-> "Recharge"]
                   ELSE c
    IN  [timestamp    |-> current.timestamp,
         state        |-> final.state,
         sub_type     |-> final.sub_type,
         intensity    |-> current.intensity,
         dominant_app |-> DominantApp(window, order),
         metrics      |-> [keys |-> current.keystrokes, clicks |-> 0, scrolls |-> 0]]

\* for i in range(lo, hi): timeline.append(...), from the timeline tl built so far.
\* The loop over lo..hi-1 is the loop over lo..mid-1 followed by the loop over
\* mid..hi-1: the same left-to-right fold, evaluated with a shallow recursion.
RECURSIVE MacroRange(_, _, _, _, _, _)
MacroRange(micro, threshold, order, lo, hi, tl) ==
    IF hi <= lo THEN tl
    ELSE IF hi = lo + 1 THEN Append(tl, MacroPoint(micro, threshold, order, lo, tl))
    ELSE LET mid  == (lo + hi) \div 2
             left == MacroRange(micro, threshold, order, lo, mid, tl)
         IN  IF Len(left) = mid THEN MacroRange(micro, threshold, order, mid, hi, left)
             ELSE left   \* not taken: the loop has appended one point per index

MacroPass(micro, threshold, order) == MacroRange(micro, threshold, order, 0, Len(micro), <<>>)

---------------------------------------------------------------------------
(* process_day, gap markers (analyzer.py 244-270) *)

NeedsGapMutInclusive(time_diff) == time_diff >= GAP_THRESHOLD
NeedsGap(time_diff) == time_diff > GAP_THRESHOLD

GapMarker(prev_timestamp, time_diff) ==
    [timestamp    |-> prev_timestamp + (time_diff \div 2),
     state        |-> "IdleGap",
     sub_type     |-> "SystemOff",
     intensity    |-> <<0, 1>>,
     dominant_app |-> "System",
     gap_duration |-> time_diff,
     metrics      |-> [keys |-> 0, clicks |-> 0, scrolls |-> 0]]

\* what one iteration of the loop appends for index i (0-based)
GapStepMutReplace(tl, i) ==
    LET point     == tl[i + 1]
        time_diff == point.timestamp - tl[i].timestamp
    IN  IF i > 0 /\ NeedsGap(time_diff)
        THEN <<GapMarker(tl[i].timestamp, time_diff)>>
        ELSE <<point>>
GapStep(tl, i) ==
    LET point     == tl[i + 1]
        time_diff == point.timestamp - tl[i].timestamp
    IN  IF i > 0 /\ NeedsGap(time_diff)
        THEN <<GapMarker(tl[i].timestamp, time_diff), point>>
        ELSE <<point>>

\* for i, point in enumerate(timeline), i in lo..hi-1: what the loop appends
RECURSIVE GapsRange(_, _, _)
GapsRange(tl, lo, hi) ==
    IF hi <= lo THEN <<>>
    ELSE IF hi = lo + 1 THEN GapStep(tl, lo)
    ELSE LET mid == (lo + hi) \div 2 IN GapsRange(tl, lo, mid) \o GapsRange(tl, mid, hi)

InsertGaps(tl) == GapsRange(tl, 0, Len(tl))

---------------------------------------------------------------------------
(* get_today_data (server.py 142-260) *)

\* last_24h_data = [d for d in raw_data if d.get('timestamp', 0) >= twenty_four_hours_ago]
Last24h(samples, now) ==
    SelectSeq(samples, LAMBDA d : d.timestamp >= now - DAY_SECONDS)

\* the inner while from an Idle point at i: the first index after i whose point is
\* not Idle, len(timeline) if there is none
IdleEnd(tl, i) ==
    LET stops == {j \in (i + 1)..(Len(tl) - 1) : tl[j + 1].state # "Idle"}
    IN  IF stops = {} THEN Len(tl) ELSE CHOOSE j \in stops : \A k \in stops : j <= k

TooLongMutInclusive(idle_duration) == idle_duration >= IDLE_COMPRESSION_THRESHOLD
TooLong(idle_duration) == idle_duration > IDLE_COMPRESSION_THRESHOLD

\* the marker that replaces a long idle streak; intensity 0.1, metrics {}
IdleGapMarker(idle_start_time, idle_end_time) ==
    [timestamp    |-> idle_start_time,
     state        |-> "IdleGap",
     intensity    |-> <<1, 10>>,
     dominant_app |-> "System Idle",
     metrics      |-> <<>>,
     gap_duration |-> idle_end_time - idle_start_time,
     gap_end_time |-> idle_end_time]

\* what the outer while appends for the idle streak tl[idle_start:end]
IdleStreak(tl, idle_start, end) ==
    LET idle_start_time == tl[idle_start + 1].timestamp
        idle_end_time   == tl[end].timestamp
    IN  IF TooLong(idle_end_time - idle_start_time)
        THEN <<IdleGapMarker(idle_start_time, idle_end_time)>>
        ELSE Slice(tl, idle_start, end)

\* What the outer while appends at index i: a point that is not Idle is kept; an
\* Idle point that follows a non-Idle one (or is first) starts a streak, and the
\* inner while has consumed the other Idle points of the streak.
CompressStep(tl, i) ==
    IF tl[i + 1].state # "Idle" THEN <<tl[i + 1]>>
    ELSE IF i > 0 /\ tl[i].state = "Idle" THEN <<>>
    ELSE IdleStreak(tl, i, IdleEnd(tl, i))

RECURSIVE CompressRange(_, _, _)
CompressRange(tl, lo, hi) ==
    IF hi <= lo THEN <<>>
    ELSE IF hi = lo + 1 THEN CompressStep(tl, lo)
    ELSE LET mid == (lo + hi) \div 2
         IN  CompressRange(tl, lo, mid) \o CompressRange(tl, mid, hi)

CompressIdle(tl) == CompressRange(tl, 0, Len(tl))

\* The pairs <<n, i>>, 120 < n <= 200 and i of 0..120, for which the double product
\* i * (n / 120) falls just below the integer i*n/120, so that int() gives one
\* less than floor(i*n/120).
BucketRoundedDown ==
    {<<123, 120>>, <<130, 108>>, <<138, 100>>, <<168, 45>>, <<168, 85>>,
     <<168, 90>>, <<176, 75>>}

\* int(i * interval_size), interval_size = len(timeline) / MAX_BARS
BucketIndex(n, i) ==
    ((i * n) \div MAX_BARS) - (IF <<n, i>> \in BucketRoundedDown THEN 1 ELSE 0)

FracAdd(a, b) == Frac(a[1] * b[2] + b[1] * a[2], a[2] * b[2])

\* sum(p['intensity'] for p in chunk[lo-1:hi])
RECURSIVE FracSumRange(_, _, _)
FracSumRange(chunk, lo, hi) ==
    IF hi < lo THEN <<0, 1>>
    ELSE IF hi = lo THEN chunk[lo].intensity
    ELSE LET mid == (lo + hi) \div 2
         IN  FracAdd(FracSumRange(chunk, lo, mid), FracSumRange(chunk, mid + 1, hi))

\* the point appended for a non-empty chunk
Bar(chunk, order) ==
    LET total == FracSumRange(chunk, 1, Len(chunk))
    IN  [timestamp    |-> chunk[1].timestamp,
         state        |-> MostCommon([k \in DOMAIN chunk |-> chunk[k].state], order),
         intensity    |-> Frac(total[1], total[2] * Len(chunk)),
         dominant_app |-> chunk[1].dominant_app,
         metrics      |-> chunk[1].metrics]

\* what iteration i of the loop over range(MAX_BARS) appends
BarStep(tl, order, i) ==
    LET chunk == Slice(tl, BucketIndex(Len(tl), i), BucketIndex(Len(tl), i + 1))
    IN  IF chunk # <<>> THEN <<Bar(chunk, order)>> ELSE <<>>

\* for i in range(lo, hi): what the loop appends
RECURSIVE BarsRange(_, _, _, _)
BarsRange(tl, order, lo, hi) ==
    IF hi <= lo THEN <<>>
    ELSE IF hi = lo + 1 THEN BarStep(tl, order, lo)
    ELSE LET mid == (lo + hi) \div 2
         IN  BarsRange(tl, order, lo, mid) \o BarsRange(tl, order, mid, hi)

\* line 227: if len(timeline) > MAX_BARS
OverBarsMutLow(n) == 2 * n > MAX_BARS
OverBars(n) == n > MAX_BARS

Downsample(tl, order) == IF OverBars(Len(tl)) THEN BarsRange(tl, order, 0, MAX_BARS) ELSE tl

---------------------------------------------------------------------------
(* prepare_replay_timeline (analyzer.py 642-683) *)

\* (a + b) / 2 of two floats
FracMean(a, b) == Frac(a[1] * b[2] + b[1] * a[2], 2 * a[2] * b[2])

FracLess(a, b) == a[1] * b[2] < b[1] * a[2]

\* the dict a point opens a segment with
NewSegment(point) ==
    [state        |-> point.state,
     start_time   |-> point.timestamp,
     end_time     |-> point.timestamp,
     intensity    |-> point.intensity,
     dominant_app |-> point.dominant_app,
     metrics      |-> point.metrics]

\* a point of the same state folds into the current segment
ExtendSegmentMutLast(segment, point) ==
    [segment EXCEPT !.end_time  = point.timestamp,
                    !.intensity = point.intensity]
ExtendSegment(segment, point) ==
    [segment EXCEPT !.end_time  = point.timestamp,
                    !.intensity = FracMean(@, point.intensity)]

\* One iteration of the loop over the points: acc.segments is replay_segments
\* and acc.current is current_segment (<<>> for None).
ReplayPoint(acc, point) ==
    IF acc.current = <<>> \/ acc.current[1].state # point.state
    THEN [segments |-> acc.segments \o acc.current, current |-> <<NewSegment(point)>>]
    ELSE [segments |-> acc.segments, current |-> <<ExtendSegment(acc.current[1], point)>>]

\* for point in timeline_data[lo:hi], from the loop state acc: the loop over
\* lo..hi-1 is the loop over lo..mid-1 followed by the loop over mid..hi-1
RECURSIVE ReplayRange(_, _, _, _)
ReplayRange(timeline_data, lo, hi, acc) ==
    IF hi <= lo THEN acc
    ELSE IF hi = lo + 1 THEN ReplayPoint(acc, timeline_data[lo + 1])
    ELSE LET mid  == (lo + hi) \div 2
             left == ReplayRange(timeline_data, lo, mid, acc)
         IN  IF left.current # <<>> /\ left.current[1].intensity[2] > 0
             THEN ReplayRange(timeline_data, mid, hi, left)
             ELSE left   \* not taken: after a point there is a current segment

\* max((s['intensity'] for s in replay_segments if s['state'] == 'Focus Peak'), default=0)
MaxPeakIntensity(segments) ==
    LET peaks == {segments[k].intensity : k \in {j \in DOMAIN segments :
                                                   segments[j].state = "Focus Peak"}}
    IN  IF peaks = {} THEN <<0, 1>>
        ELSE CHOOSE m \in peaks : \A v \in peaks : ~FracLess(m, v)

\* lines 675-679: the flag each segment gets
IsPeakMoment(segment, max_intensity) ==
    segment.state = "Focus Peak" /\ segment.intensity = max_intensity

prepare_replay_timeline(timeline_data) ==
    IF timeline_data = <<>> THEN <<>>
    ELSE LET loop     == ReplayRange(timeline_data, 0, Len(timeline_data),
                                     [segments |-> <<>>, current |-> <<>>])
             segments == loop.segments \o loop.current
             max_intensity == MaxPeakIntensity(segments)
         IN  [k \in DOMAIN segments |->
                 [state          |-> segments[k].state,
                  start_time     |-> segments[k].start_time,
                  end_time       |-> segments[k].end_time,
                  intensity      |-> segments[k].intensity,
                  dominant_app   |-> segments[k].dominant_app,
                  metrics        |-> segments[k].metrics,
                  is_peak_moment |-> IsPeakMoment(segments[k], max_intensity)]]

---------------------------------------------------------------------------
(* _map_app_to_category (analyzer.py 826-847) *)

UpperLetters ==
    <<"A", "B", "C", "D", "E", "F", "G", "H", "I", "J", "K", "L", "M",
      "N", "O", "P", "Q", "R", "S", "T", "U", "V", "W", "X", "Y", "Z">>
LowerLetters ==
    <<"a", "b", "c", "d", "e", "f", "g", "h", "i", "j", "k", "l", "m",
      "n", "o", "p", "q", "r", "s", "t", "u", "v", "w", "x", "y", "z">>

\* str.lower() and str.upper() on the characters the model uses
LowerChar(c) ==
    IF \E i \in DOMAIN UpperLetters : UpperLetters[i] = c
    THEN LowerLetters[CHOOSE i \in DOMAIN UpperLetters : UpperLetters[i] = c]
    ELSE c
UpperChar(c) ==
    IF \E i \in DOMAIN LowerLetters : LowerLetters[i] = c
    THEN UpperLetters[CHOOSE i \in DOMAIN LowerLetters : LowerLetters[i] = c]
    ELSE c
Lower(chars) == [i \in DOMAIN chars |-> LowerChar(chars[i])]
Upper(chars) == [i \in DOMAIN chars |-> UpperChar(chars[i])]

\* kw in app, for two strings given by their characters
Contains(app, kw) ==
    \E i \in 0..(Len(app) - Len(kw)) : SubSeq(app, i + 1, i + Len(kw)) = kw

\* the characters of the window labels of the model
Spelling(label) ==
    CASE label = "" -> <<>>
      [] label = "Code" -> <<"C", "o", "d", "e">>
      [] label = "Chrome" -> <<"C", "h", "r", "o", "m", "e">>
      [] label = "System Idle" -> <<"S", "y", "s", "t", "e", "m", " ", "I", "d", "l", "e">>
      [] label = "System" -> <<"S", "y", "s", "t", "e", "m">>
      [] label = "Unknown" -> <<"U", "n", "k", "n", "o", "w", "n">>
      [] label = "Assembly" -> <<"A", "s", "s", "e", "m", "b", "l", "y">>
      [] label = "Spotify" -> <<"S", "p", "o", "t", "i", "f", "y">>
      [] label = "Visual Studio Code" -> <<"V", "i", "s", "u", "a", "l", " ", "S", "t", "u", "d", "i", "o", " ", "C", "o", "d", "e">>
      [] label = "chrome notepad" -> <<"c", "h", "r", "o", "m", "e", " ", "n", "o", "t", "e", "p", "a", "d">>
      [] label = "Game Player" -> <<"G", "a", "m", "e", " ", "P", "l", "a", "y", "e", "r">>
      [] label = "Keep Code" -> <<"K", "e", "e", "p", " ", "C", "o", "d", "e">>
      [] label = "xyz" -> <<"x", "y", "z">>
      [] label = "Antigravity" -> <<"A", "n", "t", "i", "g", "r", "a", "v", "i", "t", "y">>

\* the dict categories, in its insertion order; each keyword as written there
categories ==
    <<
     [category |-> "editor", keywords |-> <<
          <<"c", "o", "d", "e">>,
          <<"s", "t", "u", "d", "i", "o">>,
          <<"p", "y", "c", "h", "a", "r", "m">>,
          <<"i", "n", "t", "e", "l", "l", "i", "j">>,
          <<"s", "u", "b", "l", "i", "m", "e">>,
          <<"n", "o", "t", "e", "p", "a", "d">>,
          <<"v", "i", "m">>,
          <<"t", "e", "r", "m", "i", "n", "a", "l">>,
          <<"p", "o", "w", "e", "r", "s", "h", "e", "l", "l">>,
          <<"c", "m", "d">>,
          <<"A", "n", "t", "i", "g", "r", "a", "v", "i", "t", "y">>>>],
     [category |-> "browser", keywords |-> <<
          <<"c", "h", "r", "o", "m", "e">>,
          <<"f", "i", "r", "e", "f", "o", "x">>,
          <<"e", "d", "g", "e">>,
          <<"b", "r", "a", "v", "e">>,
          <<"o", "p", "e", "r", "a">>,
          <<"s", "a", "f", "a", "r", "i">>,
          <<"e", "x", "p", "l", "o", "r", "e", "r">>>>],
     [category |-> "messaging", keywords |-> <<
          <<"s", "l", "a", "c", "k">>,
          <<"d", "i", "s", "c", "o", "r", "d">>,
          <<"t", "e", "a", "m", "s">>,
          <<"w", "h", "a", "t", "s", "a", "p", "p">>,
          <<"t", "e", "l", "e", "g", "r", "a", "m">>,
          <<"s", "i", "g", "n", "a", "l">>,
          <<"m", "e", "s", "s", "e", "n", "g", "e", "r">>,
          <<"o", "u", "t", "l", "o", "o", "k">>,
          <<"m", "a", "i", "l">>>>],
     [category |-> "video", keywords |-> <<
          <<"y", "o", "u", "t", "u", "b", "e">>,
          <<"n", "e", "t", "f", "l", "i", "x">>,
          <<"v", "l", "c">>,
          <<"t", "w", "i", "t", "c", "h">>,
          <<"p", "l", "a", "y", "e", "r">>,
          <<"m", "o", "v", "i", "e">>>>],
     [category |-> "design", keywords |-> <<
          <<"f", "i", "g", "m", "a">>,
          <<"p", "h", "o", "t", "o", "s", "h", "o", "p">>,
          <<"i", "l", "l", "u", "s", "t", "r", "a", "t", "o", "r">>,
          <<"b", "l", "e", "n", "d", "e", "r">>,
          <<"c", "a", "n", "v", "a">>,
          <<"p", "a", "i", "n", "t">>,
          <<"g", "i", "m", "p">>>>],
     [category |-> "game", keywords |-> <<
          <<"s", "t", "e", "a", "m">>,
          <<"l", "e", "a", "g", "u", "e">>,
          <<"v", "a", "l", "o", "r", "a", "n", "t">>,
          <<"m", "i", "n", "e", "c", "r", "a", "f", "t">>,
          <<"r", "o", "b", "l", "o", "x">>,
          <<"g", "a", "m", "e">>,
          <<"u", "n", "i", "t", "y">>,
          <<"u", "n", "r", "e", "a", "l">>>>],
     [category |-> "notes", keywords |-> <<
          <<"n", "o", "t", "i", "o", "n">>,
          <<"o", "b", "s", "i", "d", "i", "a", "n">>,
          <<"o", "n", "e", "n", "o", "t", "e">>,
          <<"e", "v", "e", "r", "n", "o", "t", "e">>,
          <<"k", "e", "e", "p">>>>]
    >>

\* for cat, keywords in categories.items(): for kw in keywords: if kw in app
Matches(app, cat) ==
    \E k \in DOMAIN cat.keywords : Contains(app, cat.keywords[k])

\* _map_app_to_category(app_name), app_name given by its characters
map_app_to_category(name) ==
    IF name = <<>> \/ name = Spelling("Unknown") THEN "other"
    ELSE LET app == Lower(name)
             hits == {c \in DOMAIN categories : Matches(app, categories[c])}
         IN  IF hits = {} THEN "other"
             ELSE categories[CHOOSE c \in hits : \A d \in hits : c <= d].category

---------------------------------------------------------------------------
(* generate_passport_data (analyzer.py 683-824) *)

TRACKING_INTERVAL == 5

\* the points of a timeline that have the state st, in order
InState(tl, st) == SelectSeq(tl, LAMBDA t : t.state = st)

\* The values m for which round() takes the double (2m+1)/200, a decimal tie,
\* down to m hundredths; it takes the other ties up to m+1.
TieRoundedDown ==
    {1, 4, 7, 10, 12, 14, 15, 17, 18, 20, 21, 23, 24, 28, 29, 30, 34, 35, 36, 41, 42,
     43, 47, 48, 49, 56, 57, 58, 59, 60, 61, 62, 69, 70, 71, 72, 73, 74, 81, 82, 83,
     84, 85, 86, 94, 95, 96, 97, 98, 99}

\* round(num / den, 2), in hundredths, for 0 <= num <= den and den > 0
RoundHundredths(num, den) ==
    LET m == (100 * num) \div den
    IN  IF (200 * num) % (2 * den) = den /\ m \in TieRoundedDown THEN m
        ELSE (200 * num + den) \div (2 * den)

\* The counts, up to 250, for which round(count * interval_minutes / 60, 1) is one
\* tenth less than count * 5 / 3600 rounded half up.
HoursRoundedDown == {108, 180}

\* round(count * interval_minutes / 60, 1), in tenths of an hour
HoursTenths(count) ==
    ((2 * count + 72) \div 144) - (IF count \in HoursRoundedDown THEN 1 ELSE 0)

\* stability_score = len(focus_intervals) / active_intervals if active_intervals > 0 else 0
StabilityDenominatorMutTotal(tl) == Len(tl)
StabilityDenominator(tl) == Len(InState(tl, "Focus Peak")) + Len(InState(tl, "Drift Zone"))

\* days_tracked = max(1, int((end_ts - start_ts) / 86400) + 1)
DaysTracked(tl) ==
    LET stamps   == {tl[k].timestamp : k \in DOMAIN tl}
        start_ts == CHOOSE t \in stamps : \A u \in stamps : t <= u
        end_ts   == CHOOSE t \in stamps : \A u \in stamps : t >= u
    IN  Max(1, ((end_ts - start_ts) \div DAY_SECONDS) + 1)

\* The run lengths, up to 250, for which adding interval_minutes (the double 5/60)
\* that many times gives a sum just below the whole number of minutes, so that
\* int() gives one less than floor(run * 5 / 60).
StreakRoundedDown == {24, 60, 72, 84, 96, 108, 240}

\* int(current_streak) after run additions of interval_minutes
StreakMinutes(run) ==
    ((run * TRACKING_INTERVAL) \div 60) - (IF run \in StreakRoundedDown THEN 1 ELSE 0)

\* the length of the run of Focus Peak points that ends at position k
RunEndingAtMutOverGaps(tl, k) ==
    IF tl[k].state # "Focus Peak" THEN 0
    ELSE LET breaks == {j \in 1..k : tl[j].state \notin {"Focus Peak", "IdleGap"}}
         IN  IF breaks = {} THEN k
             ELSE k - (CHOOSE j \in breaks : \A i \in breaks : i <= j)
RunEndingAt(tl, k) ==
    IF tl[k].state # "Focus Peak" THEN 0
    ELSE LET breaks == {j \in 1..k : tl[j].state # "Focus Peak"}
         IN  IF breaks = {} THEN k
             ELSE k - (CHOOSE j \in breaks : \A i \in breaks : i <= j)

\* The loop of lines 729-737: current_streak grows by interval_minutes at a Focus
\* Peak point and longest_streak takes it up at any other point and after the
\* loop.  The sum of a longer run is larger, so the longest run gives the value.
LongestRun(tl) ==
    LET runs == {RunEndingAt(tl, k) : k \in DOMAIN tl}
    IN  CHOOSE r \in runs : \A q \in runs : q <= r

\* datetime.fromtimestamp(ts).hour, the local time zone being UTC
Hour(ts) == (ts \div 3600) % 24

\* hour_focus_counts and its like: the points of state st per hour
HourCounts(tl, st) ==
    [h \in 0..23 |-> Cardinality({k \in DOMAIN tl : tl[k].state = st /\ Hour(tl[k].timestamp) = h})]

\* max(counts, key=counts.get) for a dict with the keys 0..23 inserted in order
ArgMaxHourMutLast(counts) ==
    CHOOSE h \in 0..23 :
        /\ \A g \in 0..23 : counts[g] <= counts[h]
        /\ \A g \in (h + 1)..23 : counts[g] < counts[h]
ArgMaxHour(counts) ==
    CHOOSE h \in 0..23 :
        /\ \A g \in 0..23 : counts[g] <= counts[h]
        /\ \A g \in 0..(h - 1) : counts[g] < counts[h]

\* the category of a point's dominant_app
CategoryOf(t) == map_app_to_category(Spelling(t.dominant_app))

\* the keys of a dict in insertion order, for the values vals inserted in order
Keys(vals) ==
    LET present == {vals[k] : k \in DOMAIN vals}
        first   == [v \in present |-> CHOOSE k \in DOMAIN vals :
                                          vals[k] = v /\ \A j \in 1..(k - 1) : vals[j] # v]
    IN  [n \in 1..Cardinality(present) |->
            CHOOSE v \in present : Cardinality({w \in present : first[w] < first[v]}) = n - 1]

\* max(d, key=d.get) for the dict that counts the values of vals: the first key,
\* in insertion order, of maximal count
ArgMaxCount(vals) ==
    LET keys == Keys(vals)
    IN  keys[CHOOSE n \in DOMAIN keys :
                 /\ \A m \in DOMAIN keys : Count(vals, keys[m]) <= Count(vals, keys[n])
                 /\ \A m \in 1..(n - 1) : Count(vals, keys[m]) < Count(vals, keys[n])]

\* xs.sort(key=lambda x: x['share'], reverse=True): a stable sort
SortedByShareMutAscending(xs) ==
    LET before(i, j) == \/ FracLess(xs[i].share, xs[j].share)
                        \/ xs[i].share = xs[j].share /\ i < j
    IN  [n \in DOMAIN xs |->
            xs[CHOOSE i \in DOMAIN xs :
                   Cardinality({j \in DOMAIN xs : before(j, i)}) = n - 1]]
SortedByShare(xs) ==
    LET before(i, j) == \/ FracLess(xs[j].share, xs[i].share)
                        \/ xs[i].share = xs[j].share /\ i < j
    IN  [n \in DOMAIN xs |->
            xs[CHOOSE i \in DOMAIN xs :
                   Cardinality({j \in DOMAIN xs : before(j, i)}) = n - 1]]

\* focus_by_category, from the Focus Peak points
FocusByCategory(focus) ==
    LET cats == [k \in DOMAIN focus |-> CategoryOf(focus[k])]
        keys == Keys(cats)
        apps(cat) == LET of == SelectSeq(focus, LAMBDA t : CategoryOf(t) = cat)
                     IN  [k \in DOMAIN of |-> of[k].dominant_app]
    IN  SortedByShare([n \in DOMAIN keys |->
            [category     |-> keys[n],
             share        |-> Frac(Count(cats, keys[n]), Len(focus)),
             dominant_app |-> ArgMaxCount(apps(keys[n]))]])

\* nemesis_category (<<>> for None) and nemesis_app, from the Drift Zone points
Nemesis(drift) ==
    LET cats == [k \in DOMAIN drift |-> CategoryOf(drift[k])]
        cat  == ArgMaxCount(cats)
        of   == SelectSeq(drift, LAMBDA t : CategoryOf(t) = cat)
    IN  IF drift = <<>> THEN [category |-> <<>>, app |-> "Unknown"]
        ELSE [category |-> <<cat>>,
              app      |-> ArgMaxCount([k \in DOMAIN of |-> of[k].dominant_app])]

\* The report built from the timeline that process_day returned: <<>> for None.
\* stability_score is the local of line 712; the report carries it rounded.
generate_passport_data(tl) ==
    IF tl = <<>> THEN <<>>
    ELSE LET focus   == InState(tl, "Focus Peak")
             drift   == InState(tl, "Drift Zone")
             active_intervals == StabilityDenominator(tl)
             stability_score  == IF active_intervals > 0
                                 THEN Frac(Len(focus), active_intervals) ELSE <<0, 1>>
             days_tracked == DaysTracked(tl)
             nemesis == Nemesis(drift)
         IN  <<[stability_score           |-> stability_score,
                totalFocusHours           |-> HoursTenths(Len(focus)),
                totalDriftHours           |-> HoursTenths(Len(drift)),
                totalIdleHours            |-> HoursTenths(Len(InState(tl, "Idle"))),
                totalRecoveryPoints       |-> Len(InState(tl, "Recovery Point")),
                longestFocusStreakMinutes |-> StreakMinutes(LongestRun(tl)),
                averageDailyFocusMinutes  |->
                    (Len(focus) * TRACKING_INTERVAL) \div (60 * days_tracked),
                attentionStabilityScore   |->
                    IF active_intervals > 0
                    THEN RoundHundredths(Len(focus), active_intervals) ELSE 0,
                microLeakEvents           |->
                    Len(SelectSeq(drift, LAMBDA t : t.sub_type = "Fragmented")),
                daysTracked               |-> days_tracked,
                bestHourOfDay             |-> ArgMaxHour(HourCounts(tl, "Focus Peak")),
                toughestHourOfDay         |-> ArgMaxHour(HourCounts(tl, "Drift Zone")),
                focusByCategory           |-> FocusByCategory(focus),
                nemesisCategory           |-> nemesis.category,
                nemesisApp                |-> nemesis.app,
                hourlyFocusMap            |-> HourCounts(tl, "Focus Peak"),
                hourlyDriftMap            |-> HourCounts(tl, "Drift Zone"),
                hourlyRecoveryMap         |-> HourCounts(tl, "Recovery Point")]>>

---------------------------------------------------------------------------
(* generate_reflection, the raw-activity log (analyzer.py 343-416) *)

NOISE_LIMIT == 10
BLOCK_GAP == 300

KEEP_APPS ==
    <<<<"y", "o", "u", "t", "u", "b", "e">>,
      <<"n", "e", "t", "f", "l", "i", "x">>,
      <<"v", "l", "c">>,
      <<"s", "p", "o", "t", "i", "f", "y">>,
      <<"t", "w", "i", "t", "c", "h">>,
      <<"p", "l", "a", "y", "e", "r">>>>

\* activity = keystrokes + mouse_clicks + mouse_scrolls (a click counts once here)
LogActivity(d) == d.keystrokes + d.mouse_clicks + d.mouse_scrolls

\* app_activity_totals, over the window labels of raw
AppActivityTotals(raw) ==
    [a \in {raw[k].active_window : k \in DOMAIN raw} |->
        Sum([k \in DOMAIN raw |-> IF raw[k].active_window = a THEN LogActivity(raw[k]) ELSE 0])]

\* is_media = any(k in app.lower() for k in KEEP_APPS)
IsMedia(label) == \E k \in DOMAIN KEEP_APPS : Contains(Lower(Spelling(label)), KEEP_APPS[k])

\* the name a sample is logged under (lines 369-373)
LoggedApp(d, totals) ==
    IF totals[d.active_window] < NOISE_LIMIT /\ ~IsMedia(d.active_window) /\ ~d.is_idle
    THEN "System" ELSE d.active_window

\* strftime('%H:%M') of a timestamp, the local time zone being UTC
Clock(ts) == <<Hour(ts), (ts \div 60) % 60>>

\* The line written for the block the loop state b holds.  The lines written in
\* the loop have ' - ' between the two times, the last one has '-'.
LogLine(b, spaced) ==
    [time_range   |-> <<Clock(b.current_start),
                        Clock(b.current_start + b.count * TRACKING_INTERVAL)>>,
     spaced       |-> spaced,
     app          |-> b.current_app,
     state        |-> IF b.current_idle THEN "Idle" ELSE "Active",
     avg_activity |-> b.current_activity_sum \div Max(1, b.count)]

\* the loop state before the first sample: the block starts with the first
\* sample's own label and idle flag, and count = 0
FirstBlock(raw) ==
    [current_start        |-> raw[1].timestamp,
     current_app          |-> raw[1].active_window,
     current_idle         |-> raw[1].is_idle,
     current_activity_sum |-> 0,
     count                |-> 0,
     lines                |-> <<>>]

\* one iteration of the loop of lines 362-404
LogStep(b, d, totals) ==
    LET app      == LoggedApp(d, totals)
        time_gap == d.timestamp - (b.current_start + b.count * TRACKING_INTERVAL)
    IN  IF app = b.current_app /\ d.is_idle = b.current_idle /\ time_gap < BLOCK_GAP
        THEN [b EXCEPT !.current_activity_sum = @ + LogActivity(d), !.count = @ + 1]
        ELSE [current_start        |-> d.timestamp,
              current_app          |-> app,
              current_idle         |-> d.is_idle,
              current_activity_sum |-> LogActivity(d),
              count                |-> 1,
              lines                |-> Append(b.lines, LogLine(b, TRUE))]

\* for d in raw[lo:hi], from the loop state b
RECURSIVE LogRange(_, _, _, _, _)
LogRange(raw, totals, lo, hi, b) ==
    IF hi <= lo THEN b
    ELSE IF hi = lo + 1 THEN LogStep(b, raw[lo + 1], totals)
    ELSE LET mid  == (lo + hi) \div 2
             left == LogRange(raw, totals, lo, mid, b)
         IN  IF left.count >= 0 THEN LogRange(raw, totals, mid, hi, left)
             ELSE left   \* not taken: count is never negative

\* compressed_lines when the function reaches line 416, for a non-empty raw
RawActivityLog(raw) ==
    LET last == LogRange(raw, AppActivityTotals(raw), 0, Len(raw), FirstBlock(raw))
    IN  Append(last.lines, LogLine(last, FALSE))

---------------------------------------------------------------------------
(* The calls *)

\* the locals of a process_day call that an exception ended
Raise(micro, threshold, name) ==
    [micro_states |-> micro, activity_threshold |-> threshold,
     timeline |-> <<>>, result |-> <<>>, raised |-> <<name>>]

\* process_day(raw, reference_data=ref) under the profile's percentile: its locals,
\* the returned timeline and the exception that ended it, if any
process_day(raw, ref, percentile, order) ==
    IF raw = <<>>
    THEN [micro_states |-> <<>>, activity_threshold |-> <<>>,
          timeline |-> <<>>, result |-> <<>>, raised |-> <<>>]
    ELSE LET micro     == MicroPass(raw)
             sorted_activities == SortedDesc(ReferenceScores(ThresholdData(raw, ref)))
             threshold == ActivityThreshold(ThresholdData(raw, ref), percentile)
             tl        == MacroPass(micro, threshold, order)
         IN  IF percentile # <<>> /\ StrategyARaises(sorted_activities, percentile[1])
                 THEN Raise(micro, <<>>, "IndexError")
             ELSE IF EmptyWindow(micro)
                 THEN Raise(micro, <<threshold>>, "ZeroDivisionError")
             ELSE [micro_states |-> micro, activity_threshold |-> <<threshold>>,
                   timeline |-> tl, result |-> InsertGaps(tl), raised |-> <<>>]

\* a direct call process_day(data, reference)
ProcessDay ==
    /\ request = "process_day"
    /\ pc = "start"
    /\ LET r == process_day(data, reference, focus_percentile, hash_order)
       IN  /\ raw_data' = data
           /\ reference_data' = reference
           /\ micro_states' = r.micro_states
           /\ activity_threshold' = r.activity_threshold
           /\ timeline' = r.timeline
           /\ result' = r.result
           /\ raised' = r.raised
           /\ pc' = IF r.raised # <<>> THEN "raised" ELSE "processed"
    /\ UNCHANGED <<tracker_vars, profile_vars>>
    /\ UNCHANGED <<data, reference, focus_percentile, hash_order, request, compressed, response,
                   replay_segments, passport_data, app_name, category, compressed_lines>>

\* GET /api/today at time now
GetTodayData(now) ==
    /\ request = "today"
    /\ pc = "start"
    /\ LET last_24h_data == Last24h(data, now)
           r == process_day(last_24h_data, data, focus_percentile, hash_order)
           c == CompressIdle(r.result)
       IN  IF last_24h_data = <<>>
           THEN /\ response' = <<>>
                /\ pc' = "served"
                /\ UNCHANGED <<raised, raw_data, reference_data, micro_states,
                               activity_threshold, timeline, result, compressed>>
           ELSE /\ raw_data' = last_24h_data
                /\ reference_data' = data
                /\ micro_states' = r.micro_states
                /\ activity_threshold' = r.activity_threshold
                /\ timeline' = r.timeline
                /\ result' = r.result
                /\ raised' = r.raised
                /\ IF r.raised # <<>>
                   THEN /\ pc' = "raised"
                        /\ UNCHANGED <<compressed, response>>
                   ELSE /\ pc' = "served"
                        /\ compressed' = c
                        /\ response' = Downsample(c, hash_order)
    /\ UNCHANGED <<tracker_vars, profile_vars>>
    /\ UNCHANGED <<data, reference, focus_percentile, hash_order, request,
                   replay_segments, passport_data, app_name, category, compressed_lines>>

\* today_data = [d for d in data if d['timestamp'] >= today_start]
TodayData(samples, today_start) == SelectSeq(samples, LAMBDA d : d.timestamp >= today_start)

\* GET /api/replay on a day that began at today_start
GetReplayData(today_start) ==
    /\ request = "replay"
    /\ pc = "start"
    /\ LET today_data == TodayData(data, today_start)
           r == process_day(today_data, <<>>, focus_percentile, hash_order)
       IN  /\ raw_data' = today_data
           /\ reference_data' = <<>>
           /\ micro_states' = r.micro_states
           /\ activity_threshold' = r.activity_threshold
           /\ timeline' = r.timeline
           /\ result' = r.result
           /\ raised' = r.raised
           /\ IF r.raised # <<>>
              THEN /\ pc' = "raised"
                   /\ UNCHANGED replay_segments
              ELSE /\ pc' = "replayed"
                   /\ replay_segments' = prepare_replay_timeline(r.result)
    /\ UNCHANGED <<tracker_vars, profile_vars>>
    /\ UNCHANGED <<data, reference, focus_percentile, hash_order, request, compressed, response,
                   passport_data, app_name, category, compressed_lines>>

\* GET /api/passport
GetPassportData ==
    /\ request = "passport"
    /\ pc = "start"
    /\ LET r == process_day(data, <<>>, focus_percentile, hash_order)
       IN  /\ raw_data' = data
           /\ reference_data' = <<>>
           /\ micro_states' = r.micro_states
           /\ activity_threshold' = r.activity_threshold
           /\ timeline' = r.timeline
           /\ result' = r.result
           /\ raised' = r.raised
           /\ IF r.raised # <<>>
              THEN /\ pc' = "raised"
                   /\ UNCHANGED passport_data
              ELSE /\ pc' = "reported"
                   /\ passport_data' = generate_passport_data(r.result)
    /\ UNCHANGED <<tracker_vars, profile_vars>>
    /\ UNCHANGED <<data, reference, focus_percentile, hash_order, request, compressed, response,
                   replay_segments, app_name, category, compressed_lines>>

\* What process_day raises, without its results
RaisedBy(raw, ref, percentile) ==
    IF raw = <<>> THEN <<>>
    ELSE IF /\ percentile # <<>>
            /\ StrategyARaises(SortedDesc(ReferenceScores(ThresholdData(raw, ref))),
                               percentile[1])
        THEN <<"IndexError">>
    ELSE IF EmptyWindow(MicroPass(raw)) THEN <<"ZeroDivisionError">>
    ELSE <<>>

\* A call generate_reflection(data), up to the raw-activity log.  The function
\* returns at once for no data; it calls process_day(raw_data) for the summary
\* of the graph before it builds the log.  It returns a prompt text that holds
\* the lines of the log; the rest of that text is not modelled.
GenerateReflection ==
    /\ request = "reflection"
    /\ pc = "start"
    /\ IF data = <<>>
       THEN /\ pc' = "reflected"
            /\ UNCHANGED <<raised, compressed_lines>>
       ELSE /\ raised' = RaisedBy(data, <<>>, focus_percentile)
            /\ IF raised' # <<>>
               THEN /\ pc' = "raised"
                    /\ UNCHANGED compressed_lines
               ELSE /\ pc' = "reflected"
                    /\ compressed_lines' = RawActivityLog(data)
    /\ UNCHANGED <<tracker_vars, profile_vars>>
    /\ UNCHANGED <<data, reference, focus_percentile, hash_order, request, raw_data, reference_data,
                   micro_states, activity_threshold, timeline, result, compressed, response,
                   replay_segments, passport_data, app_name, category>>

\* a call _map_app_to_category(app_name)
MapAppToCategory ==
    /\ request = "category"
    /\ pc = "start"
    /\ category' = <<map_app_to_category(app_name)>>
    /\ pc' = "mapped"
    /\ UNCHANGED <<tracker_vars, profile_vars>>
    /\ UNCHANGED <<data, reference, focus_percentile, hash_order, request, raised, raw_data,
                   reference_data, micro_states, activity_threshold, timeline, result,
                   compressed, response, replay_segments, passport_data, app_name,
                   compressed_lines>>

---------------------------------------------------------------------------
(* Inputs *)

MaxBlocks == 2      \* blocks of a short sample sequence
MaxRefLen == 3      \* samples of a small reference set

Fields(k, c, s, d, w, idle, app) ==
    [keystrokes |-> k, mouse_clicks |-> c, mouse_scrolls |-> s, mouse_distance |-> d,
     window_switches |-> w, is_idle |-> idle, active_window |-> app]

Work  == Fields(10, 3, 0, 100, 1, FALSE, "Code")        \* score 16
Away  == Fields(0, 0, 0, 0, 0, TRUE, "System Idle")     \* nothing happened
Lock  == Fields(7, 0, 0, 20, 0, TRUE, "System Idle")    \* input on an ignored window
Still == Fields(0, 0, 0, 0, 1, FALSE, "")               \* score 0, not idle, blank label
Read3 == Fields(0, 0, 3, 40, 1, FALSE, "Chrome")        \* score 3
Type7 == Fields(7, 0, 0, 0, 1, FALSE, "Code")           \* score 7
Flip  == Fields(0, 0, 0, 0, 3, FALSE, "Chrome")         \* score 0, three window switches

At(t, kind) == [timestamp |-> t] @@ kind

\* a block is len samples of one kind, each step seconds after the sample before it
RECURSIVE BlocksFrom(_, _, _)
BlocksFrom(bs, k, t) ==
    IF k > Len(bs) THEN <<>>
    ELSE [j \in 1..bs[k].len |-> At(t + j * bs[k].step, bs[k].kind)]
         \o BlocksFrom(bs, k + 1, t + bs[k].len * bs[k].step)

\* the first sample is at time 0
Samples(bs) == IF bs = <<>> THEN <<>> ELSE BlocksFrom(bs, 1, 0 - bs[1].step)

Block(kind, len, step) == [kind |-> kind, len |-> len, step |-> step]

SeqsUpTo(S, n) == UNION {[1..m -> S] : m \in 0..n}

HashOrderA ==
    <<"Code", "Chrome", "Assembly", "Spotify", "System Idle", "Unknown", "Idle", "Focus Peak",
      "Light Focus", "Drift Zone", "Recovery Point", "IdleGap">>
HashOrderB ==
    <<"IdleGap", "Recovery Point", "Drift Zone", "Light Focus", "Focus Peak", "Idle",
      "Unknown", "System Idle", "Spotify", "Assembly", "Chrome", "Code">>
HashOrders == {HashOrderA, HashOrderB}

Percentiles == {30, 50, 80}

\* single samples over a grid of field values
MicroKinds ==
    {Fields(k, c, s, d, w, idle, "Code") :
        k \in {0, 4, 5, 10}, c \in {0, 3}, s \in {0, 1}, d \in {0, 100},
        w \in {2, 3}, idle \in BOOLEAN}

\* the reference scores 9, 8, ..., 0
Countdown == [k \in 1..10 |-> At(5 * k, Fields(10 - k, 0, 0, 0, 1, FALSE, "Code"))]

ReferenceSets ==
    {[k \in DOMAIN ks |-> At(5 * k, ks[k])] :
        ks \in SeqsUpTo({Still, Read3, Type7, Lock}, MaxRefLen)} \cup {Countdown}

ShortBlocks ==
    {Block(kind, len, step) : kind \in {Work, Away}, len \in {1, 7}, step \in {1, 300, 301}}

\* two samples 299, 300, 301 or 400 seconds apart
PairInputs ==
    {<<Block(Work, 1, 0), Block(kind, 1, step)>> :
        kind \in {Work, Away}, step \in {299, 300, 301, 400}}

\* enough work to fill the lookback, then an idle tail that ends the sequence
LongInputs ==
    {<<Block(Work, a, 5), Block(Away, b, 5)>> :
        a \in {lookback - 24, lookback - 23}, b \in {25, 26}}

\* work, then an idle stretch whose macro-Idle run spans 1800 s or 1801 s
MediumInputs ==
    {<<Block(Work, 40, 5), Block(Away, 39, 100), Block(Away, 1, last)>> :
        last \in {100, 101}}

\* samples for the raw-activity log: a busy app, a quiet one (at work and idle)
\* and a media app
Busy  == Fields(10, 0, 0, 0, 0, FALSE, "Code")
Quiet == Fields(0, 1, 0, 0, 0, FALSE, "Assembly")
Doze  == Fields(0, 0, 0, 0, 0, TRUE, "Assembly")
Tune  == Fields(0, 0, 0, 0, 0, FALSE, "Spotify")
LogKinds == {Busy, Quiet, Doze, Tune}

\* every keyword of the table as written, in capitals and capitalised; labels
\* with several keywords, with none, and the blank and the Unknown label
Keywords == UNION {{cat.keywords[k] : k \in DOMAIN cat.keywords} :
                      cat \in {categories[c] : c \in DOMAIN categories}}
Labels ==
    {kw : kw \in Keywords}
    \cup {Upper(kw) : kw \in Keywords}
    \cup {<<UpperChar(kw[1])>> \o Tail(kw) : kw \in Keywords}
    \cup {Spelling(l) : l \in {"", "Unknown", "xyz", "System Idle", "Visual Studio Code",
                                "chrome notepad", "Game Player", "Keep Code"}}

InitLabel ==
    /\ app_name \in Labels
    /\ data = <<>>
    /\ reference = <<>>
    /\ focus_percentile = <<>>
    /\ hash_order = HashOrderA
    /\ request = "category"

\* work, then an idle tail: index 181 has 126 active points in its lookback and
\* index 182 has 125
RecoveryInputs == {<<Block(Work, RECOVERY_MIN_ACTIVE - 18, 5), Block(Away, 75, 5)>>}

\* short days for the macro rules: windows that are 80% idle or more, with
\* activity; windows of many and of few window switches
MacroInputs ==
    {<<Block(Lock, idle, 5), Block(kind, 1, 5)>> : idle \in {4, 5}, kind \in {Type7, Flip, Still}}
    \cup {<<Block(Flip, a, 5), Block(Still, b, 5)>> : a \in {1, 2}, b \in {1, 2}}

\* short days for the replay: blocks with and without gaps over five minutes
ReplayBlocks == {b \in ShortBlocks : b.step # GAP_THRESHOLD}

\* the calls that classify the stored samples
Classifying == {"process_day", "today"}

InitMicro ==
    /\ data \in {<<At(0, kind)>> : kind \in MicroKinds}
    /\ reference = <<>>
    /\ focus_percentile = <<>>
    /\ hash_order \in HashOrders
    /\ request \in Classifying

InitThreshold ==
    /\ data \in {<<At(0, Work)>>, <<At(0, Away)>>}
    /\ reference \in ReferenceSets
    /\ focus_percentile \in {<<>>} \cup {<<P>> : P \in Percentiles}
    /\ hash_order \in HashOrders
    /\ request \in Classifying

InitBlocks ==
    /\ \/ /\ data \in {Samples(bs) : bs \in SeqsUpTo(ShortBlocks, MaxBlocks)}
          /\ hash_order = HashOrderA
       \/ /\ data \in {Samples(bs) : bs \in PairInputs}
          /\ hash_order \in HashOrders
    /\ reference = <<>>
    /\ focus_percentile = <<>>
    /\ request \in Classifying

InitLong ==
    /\ data \in {Samples(bs) : bs \in LongInputs \cup MediumInputs}
    /\ reference = <<>>
    /\ focus_percentile \in {<<>>, <<50>>}
    /\ hash_order = HashOrderA
    /\ request \in Classifying

\* days for the macro rules and the recovery lookback
InitMacro ==
    /\ data \in {Samples(bs) : bs \in MacroInputs \cup RecoveryInputs}
    /\ reference = <<>>
    /\ focus_percentile = <<>>
    /\ hash_order = HashOrderA
    /\ request = "process_day"

\* degenerate days: blank labels, no activity, idle samples
InitDegenerate ==
    /\ data \in {[k \in DOMAIN ks |-> At(5 * (k - 1), ks[k])] :
                    ks \in SeqsUpTo({Still, Away, Lock}, MaxRefLen)}
    /\ reference = <<>>
    /\ focus_percentile \in {<<>>, <<30>>, <<80>>}
    /\ hash_order = HashOrderA
    /\ request \in {"process_day", "replay", "passport"}

\* a stored percentile of 100
InitStored ==
    /\ data \in {Samples(<<Block(kind, len, 5)>>) : kind \in {Work, Away}, len \in {1, 7}}
    /\ reference = <<>>
    /\ focus_percentile = <<100>>
    /\ hash_order = HashOrderA
    /\ request \in {"process_day", "today", "replay", "passport", "reflection"}

\* days for the replay
InitReplay ==
    /\ data \in {Samples(bs) : bs \in SeqsUpTo(ReplayBlocks, MaxBlocks) \cup PairInputs
                                          \cup MediumInputs}
    /\ reference = <<>>
    /\ focus_percentile = <<>>
    /\ hash_order = HashOrderA
    /\ request = "replay"

\* work in a browser and under a media app
Surf == Fields(10, 3, 0, 100, 1, FALSE, "Chrome")
Hum  == Fields(10, 3, 0, 100, 1, FALSE, "Spotify")

\* days for the passport: focus runs on both sides of a gap over five minutes,
\* the longer one first or last; work and drift at 0, 1 and 2 o'clock; focus in
\* three apps of different categories, then drift
ReportInputs ==
    {<<Block(Work, a, 5), Block(Work, 1, GAP_THRESHOLD + 1), Block(Work, b, 5)>> :
        a \in {15, 35}, b \in {23, 29}}
    \cup {<<Block(kind, 1, 5), Block(kind, 1, 3600), Block(kind, 1, 5),
            Block(kind, 1, 3595), Block(kind, c, 5)>> : kind \in {Work, Flip}, c \in {1, 2}}
    \cup {<<Block(Hum, 32, 5), Block(Work, 45, 5), Block(Surf, 38, 5), Block(Flip, 70, 60)>>,
          <<Block(Surf, 35, 5), Block(Flip, 40, 60), Block(Still, 45, 60)>>}
    \cup RecoveryInputs

\* days for the passport
InitReport ==
    /\ data \in {Samples(bs) : bs \in PairInputs \cup MacroInputs \cup MediumInputs
                                          \cup ReportInputs}
    /\ reference = <<>>
    /\ focus_percentile = <<>>
    /\ hash_order = HashOrderA
    /\ request = "passport"

\* a day of more than MAX_BARS points whose length the bars do not divide
InitBars ==
    /\ data = Samples(<<Block(Work, MAX_BARS + 2, 5), Block(Type7, 1, 5)>>)
    /\ reference = <<>>
    /\ focus_percentile = <<>>
    /\ hash_order = HashOrderA
    /\ request = "today"

\* days for the raw-activity log
InitLog ==
    /\ data \in {[k \in DOMAIN ks |-> At(5 * (k - 1), ks[k])] :
                    ks \in SeqsUpTo(LogKinds, MaxRefLen)}
    /\ reference = <<>>
    /\ focus_percentile = <<>>
    /\ hash_order = HashOrderA
    /\ request = "reflection"

---------------------------------------------------------------------------
(* The tracker (tracker.py), and a GET /api/today served while it runs *)

MaxEvents == 2      \* input events of a run of the tracker
MaxIntervals == 1   \* intervals of a run of the tracker

\* the listener threads: pynput runs the callbacks of one listener one after
\* the other, and the two listeners side by side
Listeners == {"keyboard", "mouse"}

\* the counters of the events: the mouse does not move
Counters == {"keystrokes", "mouse_clicks", "mouse_scrolls"}

\* the counters the callbacks of a listener increment: _on_press; _on_click of
\* a press and _on_scroll
CountersOf(listener) ==
    IF listener = "keyboard" THEN {"keystrokes"} ELSE {"mouse_clicks", "mouse_scrolls"}

\* _reset_interval_data()
reset_interval_data == At(0, Fields(0, 0, 0, 0, 0, FALSE, ""))

\* _get_active_window(): the title of the foreground window, "IGNORE" for a
\* title of the blocklist
Windows == {"Code", "IGNORE"}

\* with self.lock: a thread enters when no thread holds the lock
CanAcquireMutNoLock(holder) == TRUE

CanAcquire(holder) == holder = "free"

\* the end of a with self.lock block of thread t
Released(holder, t) == IF holder = t THEN "free" ELSE holder

\* the input events that have reached a callback so far
Arrived ==
    fired["keystrokes"] + fired["mouse_clicks"] + fired["mouse_scrolls"]
    + Cardinality({t \in Listeners : callback_pc[t] # "waiting"})

server_vars == <<reader_pc, reader_local>>
loop_vars == <<clock, loop_pc, loop_local, intervals>>
callback_vars == <<callback_pc, callback_local, fired>>

\* an input event reaches the callback of listener t that counts it in counter:
\* the callback enters with self.lock, and
\* self.current_interval_data[counter] += 1 loads the dict the attribute names
\* now and the value of its counter
CallbackEnter(t, counter) ==
    /\ callback_pc[t] = "waiting"
    /\ Arrived < MaxEvents
    /\ CanAcquire(lock)
    /\ lock' = t
    /\ callback_pc' = [callback_pc EXCEPT ![t] = "loaded"]
    /\ callback_local' = [callback_local EXCEPT ![t] =
                            [counter |-> counter,
                             record  |-> current_interval_data,
                             value   |-> interval_records[current_interval_data][counter]]]
    /\ UNCHANGED <<interval_records, current_interval_data, fired, suppressed,
                   loop_vars, server_vars, analysis_vars, profile_vars>>

\* self.current_interval_data[counter] += 1, the store into the dict that was
\* loaded; the with block ends and the callback returns
CallbackStore(t) ==
    /\ callback_pc[t] = "loaded"
    /\ LET local == callback_local[t]
       IN  /\ interval_records' =
                [interval_records EXCEPT ![local.record][local.counter] = local.value + 1]
           /\ fired' = [fired EXCEPT ![local.counter] = @ + 1]
    /\ lock' = Released(lock, t)
    /\ callback_pc' = [callback_pc EXCEPT ![t] = "waiting"]
    /\ UNCHANGED <<callback_local, current_interval_data, suppressed,
                   loop_vars, server_vars, analysis_vars, profile_vars>>

\* _loop, the top of an iteration: start_time = time.time(),
\* current_window = self._get_active_window(), and step 1 enters with self.lock
LoopCaptureEnter(current_window) ==
    /\ loop_pc = "top"
    /\ intervals < MaxIntervals
    /\ CanAcquire(lock)
    /\ lock' = "loop"
    /\ loop_local' = [current_window |-> current_window, start_time |-> clock]
    /\ loop_pc' = "capturing"
    /\ UNCHANGED <<interval_records, current_interval_data, clock, intervals,
                   suppressed, callback_vars, server_vars, analysis_vars, profile_vars>>

\* _loop, step 1, the block: the window and the timestamp of the interval
\* (the privacy level is "smart": the title is stored as it is)
LoopCapture ==
    /\ loop_pc = "capturing"
    /\ LET dict == interval_records[current_interval_data]
       IN  interval_records' =
             [interval_records EXCEPT ![current_interval_data] =
                IF loop_local.current_window = "IGNORE"
                THEN [dict EXCEPT !.active_window = "System Idle",
                                  !.timestamp = loop_local.start_time]
                ELSE [dict EXCEPT !.window_switches = @ + 1,
                                  !.active_window = loop_local.current_window,
                                  !.timestamp = loop_local.start_time]]
    /\ lock' = Released(lock, "loop")
    /\ loop_pc' = "sleeping"
    /\ UNCHANGED <<current_interval_data, clock, loop_local, intervals, suppressed,
                   callback_vars, server_vars, analysis_vars, profile_vars>>

\* _loop, step 2: time.sleep(Config.TRACKING_INTERVAL)
LoopSleep ==
    /\ loop_pc = "sleeping"
    /\ clock' = clock + TRACKING_INTERVAL
    /\ loop_pc' = "flush"
    /\ UNCHANGED <<lock, interval_records, current_interval_data, loop_local, intervals,
                   suppressed, callback_vars, server_vars, analysis_vars, profile_vars>>

\* _loop, step 3: with self.lock
LoopFlushEnter ==
    /\ loop_pc = "flush"
    /\ CanAcquire(lock)
    /\ lock' = "loop"
    /\ loop_pc' = "flushing"
    /\ UNCHANGED <<interval_records, current_interval_data, clock, loop_local, intervals,
                   suppressed, callback_vars, server_vars, analysis_vars, profile_vars>>

\* the is_idle of the interval dict at the flush: no input for the whole
\* interval, or an ignored window
IdleAtFlush(dict) ==
    \/ dict.is_idle
    \/ /\ dict.mouse_distance = 0
       /\ dict.mouse_clicks = 0
       /\ dict.mouse_scrolls = 0
       /\ dict.keystrokes = 0
    \/ dict.active_window = "System Idle"

\* night suppression: an idle interval that ends between 2 AM and 6 AM is not logged
NightSuppressed(dict, now) ==
    /\ dict.is_idle
    /\ 2 <= Hour(now)
    /\ Hour(now) < 6

\* _loop, step 3, the block up to the append: is_idle is set in the interval
\* dict, and a copy of the dict is appended to self.data unless it is suppressed
LoopAppend ==
    /\ loop_pc = "flushing"
    /\ LET dict == [interval_records[current_interval_data] EXCEPT
                      !.is_idle = IdleAtFlush(interval_records[current_interval_data])]
       IN  /\ interval_records' = [interval_records EXCEPT ![current_interval_data] = dict]
           /\ IF NightSuppressed(dict, clock)
              THEN /\ suppressed' = [c \in Counters |-> suppressed[c] + dict[c]]
                   /\ UNCHANGED data
              ELSE /\ data' = Append(data, dict)
                   /\ UNCHANGED suppressed
    /\ loop_pc' = "appended"
    /\ UNCHANGED <<lock, current_interval_data, clock, loop_local, intervals, callback_vars,
                   server_vars, profile_vars, reference, focus_percentile, hash_order,
                   request, pc, raised, raw_data, reference_data, micro_states,
                   activity_threshold, timeline, result, compressed, response,
                   replay_segments, passport_data, app_name, category, compressed_lines>>

\* _loop, step 3, the end of the block:
\* self.current_interval_data = self._reset_interval_data(), a new dict
LoopReset ==
    /\ loop_pc = "appended"
    /\ interval_records' = Append(interval_records, reset_interval_data)
    /\ current_interval_data' = Len(interval_records) + 1
    /\ lock' = Released(lock, "loop")
    /\ intervals' = intervals + 1
    /\ loop_pc' = "top"
    /\ UNCHANGED <<clock, loop_local, suppressed, callback_vars, server_vars,
                   analysis_vars, profile_vars>>

\* GET /api/today, raw_data = current_tracker.get_data(): with self.lock:
\* return self.data.  What returns is the list self.data itself, so a later read
\* through raw_data is a read of data as it is at that time; at_call is what
\* the list held when the call returned.
ReaderGetData ==
    /\ request = "today"
    /\ pc = "start"
    /\ reader_pc = "start"
    /\ CanAcquire(lock)
    /\ reader_local' = [at_call |-> data, now |-> 0, last_24h_data |-> <<>>]
    /\ reader_pc' = "held"
    /\ UNCHANGED <<lock, interval_records, current_interval_data, suppressed, loop_vars,
                   callback_vars, analysis_vars, profile_vars>>

\* GET /api/today, the filter: now = time.time() and
\* last_24h_data = [d for d in raw_data if ...]
ReaderFilter ==
    /\ reader_pc = "held"
    /\ reader_local' = [reader_local EXCEPT !.now = clock,
                                            !.last_24h_data = Last24h(data, clock)]
    /\ reader_pc' = "filtered"
    /\ UNCHANGED <<lock, interval_records, current_interval_data, suppressed, loop_vars,
                   callback_vars, analysis_vars, profile_vars>>

\* GET /api/today, from the filter on:
\* analyzer.process_day(last_24h_data, reference_data=raw_data) and the bars
ReaderProcess ==
    /\ reader_pc = "filtered"
    /\ reader_pc' = "done"
    /\ LET last_24h_data == reader_local.last_24h_data
           r == process_day(last_24h_data, data, focus_percentile, hash_order)
           c == CompressIdle(r.result)
       IN  IF last_24h_data = <<>>
           THEN /\ response' = <<>>
                /\ pc' = "served"
                /\ UNCHANGED <<raised, raw_data, reference_data, micro_states,
                               activity_threshold, timeline, result, compressed>>
           ELSE /\ raw_data' = last_24h_data
                /\ reference_data' = data
                /\ micro_states' = r.micro_states
                /\ activity_threshold' = r.activity_threshold
                /\ timeline' = r.timeline
                /\ result' = r.result
                /\ raised' = r.raised
                /\ IF r.raised # <<>>
                   THEN /\ pc' = "raised"
                        /\ UNCHANGED <<compressed, response>>
                   ELSE /\ pc' = "served"
                        /\ compressed' = c
                        /\ response' = Downsample(c, hash_order)
    /\ UNCHANGED <<lock, interval_records, current_interval_data, suppressed, loop_vars,
                   callback_vars, reader_local, profile_vars, data, reference,
                   focus_percentile, hash_order, request, replay_segments, passport_data,
                   app_name, category, compressed_lines>>

\* the tracker after __init__ at time now, before start(); no request under way
TrackerAt(now) ==
    /\ lock = "free"
    /\ interval_records = <<reset_interval_data>>
    /\ current_interval_data = 1
    /\ clock = now
    /\ loop_pc = "top"
    /\ loop_local = [current_window |-> "", start_time |-> 0]
    /\ intervals = 0
    /\ callback_pc = [l \in Listeners |-> "waiting"]
    /\ callback_local = [l \in Listeners |-> [counter |-> "", record |-> 0, value |-> 0]]
    /\ fired = [c \in Counters |-> 0]
    /\ suppressed = [c \in Counters |-> 0]
    /\ reader_pc = "start"
    /\ reader_local = [at_call |-> <<>>, now |-> 0, last_24h_data |-> <<>>]

TrackerAtRest == TrackerAt(0)

---------------------------------------------------------------------------
(* The user profile (learning.py) and the morning calibration
   (analyzer.py 34-73, 548-640) *)

MaxCalls == 2       \* profile calls of a run

\* A Python float: a finite value is (-1)^negative * num / den; kind is
\* "finite", "nan" or "inf".
Finite(n) == [kind |-> "finite", negative |-> FALSE, num |-> n, den |-> 1]

Signed(v) == IF v.negative THEN 0 - v.num ELSE v.num

\* a < b for two floats: every comparison with nan is false
FloatLess(a, b) ==
    IF a.kind = "nan" \/ b.kind = "nan" THEN FALSE
    ELSE IF a.kind = "inf" THEN a.negative /\ ~(b.kind = "inf" /\ b.negative)
    ELSE IF b.kind = "inf" THEN ~b.negative
    ELSE Signed(a) * b.den < Signed(b) * a.den

\* min(a, b) and max(a, b) of Python: the first argument unless the second
\* is smaller (larger)
PyMin(a, b) == IF FloatLess(b, a) THEN b ELSE a
PyMax(a, b) == IF FloatLess(a, b) THEN b ELSE a

CLAMP_LOW == 30
CLAMP_HIGH == 80
TOO_FEW_DEFAULT == 75
CALIBRATION_FALLBACK == 55
MIN_SAMPLES == 10

\* threshold_percentile = max(30.0, min(80.0, threshold_percentile))
ClampMutNoUpper(v) == PyMax(Finite(CLAMP_LOW), v)

Clamp(v) == PyMax(Finite(CLAMP_LOW), PyMin(Finite(CLAMP_HIGH), v))

Whitespace == {" ", "\n"}

\* str.strip()
RECURSIVE LStrip(_)
LStrip(chars) ==
    IF chars # <<>> /\ Head(chars) \in Whitespace THEN LStrip(Tail(chars)) ELSE chars

RECURSIVE RStrip(_)
RStrip(chars) ==
    IF chars # <<>> /\ chars[Len(chars)] \in Whitespace
    THEN RStrip(SubSeq(chars, 1, Len(chars) - 1))
    ELSE chars

Strip(chars) == RStrip(LStrip(chars))

Digits == <<"0", "1", "2", "3", "4", "5", "6", "7", "8", "9">>

IsDigit(c) == \E i \in DOMAIN Digits : Digits[i] = c

DigitValue(c) == (CHOOSE i \in DOMAIN Digits : Digits[i] = c) - 1

\* the number that a run of digits writes, 0 for no digit
RECURSIVE Decimal(_)
Decimal(chars) ==
    IF chars = <<>> THEN 0
    ELSE 10 * Decimal(SubSeq(chars, 1, Len(chars) - 1)) + DigitValue(chars[Len(chars)])

RECURSIVE PowerOfTen(_)
PowerOfTen(n) == IF n = 0 THEN 1 ELSE 10 * PowerOfTen(n - 1)

\* the texts the code compares with or writes, by their characters
NAN_TEXT == <<"n", "a", "n">>
INF_TEXT == <<"i", "n", "f">>
INFINITY_TEXT == <<"i", "n", "f", "i", "n", "i", "t", "y">>
ERROR_FROM_PROXY == <<"E", "r", "r", "o", "r", " ", "f", "r", "o", "m", " ", "p", "r", "o", "x", "y", ":", " ">>
ERROR_CALLING_PROXY == <<"E", "r", "r", "o", "r", " ", "c", "a", "l", "l", "i", "n", "g", " ", "r", "e", "f", "l", "e", "c", "t", "i", "o", "n", " ", "p", "r", "o", "x", "y", ":", " ">>

\* float(text) for a text without exponent and underscore: <<>> for a
\* ValueError, else <<the float>>.  The text is stripped; a sign may lead;
\* then nan, inf or infinity in any case, or digits with at most one point
\* and at least one digit.
ParseFloat(text) ==
    LET stripped == Strip(text)
        signed   == stripped # <<>> /\ Head(stripped) \in {"+", "-"}
        negative == signed /\ Head(stripped) = "-"
        body     == IF signed THEN Tail(stripped) ELSE stripped
        points   == {i \in DOMAIN body : body[i] = "."}
        point    == IF points = {} THEN Len(body) + 1 ELSE CHOOSE i \in points : TRUE
        whole    == SubSeq(body, 1, point - 1)
        part     == SubSeq(body, point + 1, Len(body))
    IN  IF Lower(body) = NAN_TEXT
        THEN <<[kind |-> "nan", negative |-> negative, num |-> 0, den |-> 1]>>
        ELSE IF Lower(body) \in {INF_TEXT, INFINITY_TEXT}
        THEN <<[kind |-> "inf", negative |-> negative, num |-> 0, den |-> 1]>>
        ELSE IF /\ Cardinality(points) <= 1
                /\ Len(whole) + Len(part) >= 1
                /\ \A i \in DOMAIN whole : IsDigit(whole[i])
                /\ \A i \in DOMAIN part : IsDigit(part[i])
        THEN <<[kind |-> "finite", negative |-> negative,
                num |-> Decimal(whole) * PowerOfTen(Len(part)) + Decimal(part),
                den |-> PowerOfTen(Len(part))]>>
        ELSE <<>>

\* _call_gemini_proxy for an outcome of the request to the text service:
\*   "text"   the reply holds a text   -> the text is returned
\*   "null"   the reply holds a text that is no string (null) -> it is returned
\*   "error"  the reply holds an error -> "Error from proxy: " and the error
\*   "other"  the reply holds neither  -> str(data)
\*   "failed" requests raises a RequestException
\*            -> "Error calling reflection proxy: " and the exception
\*   "raised" another exception leaves the function
\* returned is <<>> when an exception leaves the function and for the null,
\* which is no string; else <<the characters of the returned string>>
call_gemini_proxy(outcome) ==
    CASE outcome.kind = "text"   -> [raised |-> FALSE, string |-> TRUE, returned |-> outcome.text]
      [] outcome.kind = "null"   -> [raised |-> FALSE, string |-> FALSE, returned |-> <<>>]
      [] outcome.kind = "error"  -> [raised |-> FALSE, string |-> TRUE,
                                     returned |-> ERROR_FROM_PROXY \o outcome.text]
      [] outcome.kind = "other"  -> [raised |-> FALSE, string |-> TRUE, returned |-> outcome.text]
      [] outcome.kind = "failed" -> [raised |-> FALSE, string |-> TRUE,
                                     returned |-> ERROR_CALLING_PROXY \o outcome.text]
      [] outcome.kind = "raised" -> [raised |-> TRUE, string |-> FALSE, returned |-> <<>>]

\* the try block of morning_calibration: <<>> when an exception is caught
\* (of the call, of strip() on a value that is no string, of float()), else
\* <<the clamped float>>
Calibrated(outcome) ==
    LET reply  == call_gemini_proxy(outcome)
        parsed == ParseFloat(reply.returned)
    IN  IF reply.raised \/ ~reply.string \/ parsed = <<>> THEN <<>>
        ELSE <<Clamp(parsed[1])>>

\* morning_calibration(yesterday_data), as a fraction.  The quartiles of the
\* activities go into the prompt only.  No request is made for fewer than 10
\* samples.
morning_calibration(yesterday_data, outcome) ==
    IF Len(yesterday_data) < MIN_SAMPLES THEN <<TOO_FEW_DEFAULT, 1>>
    ELSE IF Calibrated(outcome) = <<>> THEN <<CALIBRATION_FALLBACK, 1>>
    ELSE Frac(Calibrated(outcome)[1].num, Calibrated(outcome)[1].den)

\* The dict objects of the profiles live in heap, a dict's identity is its
\* position.  A profile dict is [baselines, thresholds, fields]: the
\* identities of its two nested dicts and its other top-level keys with their
\* values (the two list-valued keys are left out).  A nested dict is a
\* function from its keys to fractions.  The profile file, when it exists,
\* holds a profile by value: baselines and thresholds are <<>> for a missing key,
\* else <<the dict>>.
DEFAULT_PROFILE == 1

DefaultBaselines ==
    [k \in {"focus_keystrokes_per_min", "focus_clicks_per_min", "focus_scrolls_per_min",
            "avg_switch_frequency"} |->
        CASE k = "focus_keystrokes_per_min" -> <<40, 1>>
          [] k = "focus_clicks_per_min" -> <<10, 1>>
          [] k = "focus_scrolls_per_min" -> <<5, 1>>
          [] k = "avg_switch_frequency" -> <<1, 2>>]

DefaultThresholds ==
    [k \in {"activity_multiplier", "reading_scroll_threshold"} |->
        IF k = "activity_multiplier" THEN <<1, 1>> ELSE <<2, 1>>]

NoFields == [k \in {} |-> ""]

\* LearningEngine.__init__, up to self.default_profile
DefaultHeap ==
    <<[baselines |-> 2, thresholds |-> 3, fields |-> NoFields],
      DefaultBaselines, DefaultThresholds>>

\* d.update(e) for two dicts
Update(d, e) == e @@ d

\* the top-level keys load_profile copies from the file
COPIED_KEYS ==
    {"userName", "workArchetype", "primaryGoal", "priorityCategory",
     "preferredFocusLengthMinutes", "sensitivityToDistraction", "driftDetectionStyle",
     "reflectionPersona"}

Restrict(d, keys) == [k \in DOMAIN d \cap keys |-> d[k]]

\* self.default_profile.copy(): a new dict with the values of the old one, so
\* with the same two nested dicts
ShallowCopy(h, id) == [heap |-> Append(h, h[id]), result |-> Len(h) + 1]

\* load_profile() on the heap h with the profile file: the heap after the call
\* and the identity of the returned dict
load_profile(h, file) ==
    LET copy   == ShallowCopy(h, DEFAULT_PROFILE)
        merged == copy.heap[copy.result]
    IN  IF file = <<>> THEN copy
        ELSE LET loaded_profile == file[1]
                 h1 == IF loaded_profile.baselines = <<>> THEN copy.heap
                       ELSE [copy.heap EXCEPT ![merged.baselines] =
                                Update(@, loaded_profile.baselines[1])]
                 h2 == IF loaded_profile.thresholds = <<>> THEN h1
                       ELSE [h1 EXCEPT ![merged.thresholds] =
                                Update(@, loaded_profile.thresholds[1])]
             IN  [heap   |-> [h2 EXCEPT ![copy.result].fields =
                                Update(@, Restrict(loaded_profile.fields, COPIED_KEYS))],
                  result |-> copy.result]

\* json.dump(self.profile, f): the profile by value
Dumped(h, id) ==
    <<[baselines |-> <<h[h[id].baselines]>>, thresholds |-> <<h[h[id].thresholds]>>,
       fields |-> h[id].fields]>>

\* the values of the nested dicts of a profile
Values(h, id) == [baselines |-> h[h[id].baselines], thresholds |-> h[h[id].thresholds]]

\* d.get('focus_percentile') for a thresholds dict whose percentile is whole
GetFocusPercentile(d) ==
    IF "focus_percentile" \in DOMAIN d THEN <<d["focus_percentile"][1]>> ELSE <<>>

call_vars == <<service, calibration, returned_profile>>

\* calibrate_and_reflect(yesterday_data) with yesterday_data = data, outcome
\* being what the request to the text service ends in
CalibrateAndReflect(outcome) ==
    /\ request = "profile"
    /\ pc = "start"
    /\ profile_calls < MaxCalls
    /\ LET threshold_percentile == morning_calibration(data, outcome)
           h1 == [heap EXCEPT ![heap[analyzer_profile].thresholds] =
                     Update(@, [k \in {"focus_percentile"} |-> threshold_percentile])]
           h2 == [h1 EXCEPT ![h1[learning_profile].thresholds] =
                     Update(@, [k \in {"focus_percentile"} |-> threshold_percentile])]
       IN  /\ heap' = h2
           /\ profile_file' = Dumped(h2, learning_profile)
           /\ calibration' = <<threshold_percentile>>
           /\ focus_percentile' = GetFocusPercentile(h2[analyzer_thresholds])
    /\ service' = IF Len(data) < MIN_SAMPLES THEN <<>> ELSE <<outcome>>
    /\ IF data = <<>>
       THEN UNCHANGED <<pc, raised, compressed_lines>>
       ELSE /\ raised' = RaisedBy(data, <<>>, focus_percentile')
            /\ IF raised' # <<>>
               THEN /\ pc' = "raised"
                    /\ UNCHANGED compressed_lines
               ELSE /\ compressed_lines' = RawActivityLog(data)
                    /\ UNCHANGED pc
    /\ profile_pc' = "calibrated"
    /\ profile_calls' = profile_calls + 1
    /\ UNCHANGED <<learning_profile, analyzer_profile, analyzer_thresholds, returned_profile,
                   tracker_vars, data, reference, hash_order, request, raw_data,
                   reference_data, micro_states, activity_threshold, timeline, result,
                   compressed, response, replay_segments, passport_data, app_name,
                   category>>

\* analyzer.profile = learning.load_profile() and
\* analyzer.thresholds = analyzer.profile.get('thresholds', {})
ReloadProfile ==
    /\ request = "profile"
    /\ pc = "start"
    /\ profile_calls < MaxCalls
    /\ LET loaded == load_profile(heap, profile_file)
       IN  /\ heap' = loaded.heap
           /\ analyzer_profile' = loaded.result
           /\ analyzer_thresholds' = loaded.heap[loaded.result].thresholds
           /\ returned_profile' = <<Values(loaded.heap, loaded.result)>>
           /\ focus_percentile' =
                GetFocusPercentile(loaded.heap[loaded.heap[loaded.result].thresholds])
    /\ profile_pc' = "loaded"
    /\ profile_calls' = profile_calls + 1
    /\ UNCHANGED <<profile_file, learning_profile, service, calibration, tracker_vars,
                   data, reference, hash_order, request, pc, raised, raw_data,
                   reference_data, micro_states, activity_threshold, timeline, result,
                   compressed, response, replay_segments, passport_data, app_name,
                   category, compressed_lines>>

\* POST /api/logout: the profile file is removed if it exists
Logout ==
    /\ request = "profile"
    /\ pc = "start"
    /\ profile_calls < MaxCalls
    /\ profile_file' = <<>>
    /\ profile_pc' = "logged out"
    /\ profile_calls' = profile_calls + 1
    /\ UNCHANGED <<heap, learning_profile, analyzer_profile, analyzer_thresholds, call_vars,
                   tracker_vars, analysis_vars>>

\* FocusAnalyzer.__init__ with the profile file as it is then:
\* self.learning = LearningEngine(), whose __init__ ends with
\* self.profile = self.load_profile(); self.profile = self.learning.load_profile();
\* self.thresholds = self.profile.get('thresholds', {})
Constructed(file) ==
    LET first  == load_profile(DefaultHeap, file)
        second == load_profile(first.heap, file)
    IN  [heap |-> second.heap, learning_profile |-> first.result,
         analyzer_profile |-> second.result,
         analyzer_thresholds |-> second.heap[second.result].thresholds]

\* the analyzer after __init__ with a given profile file, no profile call made
ProfileAfterInit(file) ==
    /\ profile_file = file
    /\ heap = Constructed(file).heap
    /\ learning_profile = Constructed(file).learning_profile
    /\ analyzer_profile = Constructed(file).analyzer_profile
    /\ analyzer_thresholds = Constructed(file).analyzer_thresholds
    /\ service = <<>>
    /\ calibration = <<>>
    /\ returned_profile = <<>>
    /\ profile_pc = "constructed"
    /\ profile_calls = 0

ProfileAtRest == ProfileAfterInit(<<>>)

\* the texts the text service answers a calibration request with
ReplyTexts ==
    {<<"5", "5">>,
     <<" ", "6", "0", "\n">>,
     <<"2", "5">>,
     <<"9", "5">>,
     <<"3", "0">>,
     <<"8", "0">>,
     <<"-", "5">>,
     <<"2", "5", ".", "5">>,
     <<"9", "9", ".", "9">>,
     <<"5", "5", ".", "0">>,
     <<"+", "7", "0">>,
     <<"n", "a", "n">>,
     <<"i", "n", "f">>,
     <<"-", "i", "n", "f">>,
     <<"I", "n", "f", "i", "n", "i", "t", "y">>,
     <<>>,
     <<"H", "i", "g", "h">>,
     <<"5", " ", "5">>,
     <<"1", ".", "2", ".", "3">>,
     <<".">>}

\* what a request to the text service ends in
Outcomes ==
    {[kind |-> "text", text |-> t] : t \in ReplyTexts}
    \cup {[kind |-> "null", text |-> <<>>],
          [kind |-> "error", text |-> <<"q", "u", "o", "t", "a">>],
          [kind |-> "other", text |-> <<"{", "}">>],
          [kind |-> "failed", text |-> <<"t", "i", "m", "e", "o", "u", "t">>],
          [kind |-> "raised", text |-> <<>>]}

\* the profile file when the analyzer is constructed: none, the file that the
\* onboarding wrote, or the file that save_profile wrote on an earlier day
OnboardingFile ==
    <<[baselines |-> <<>>, thresholds |-> <<>>,
       fields |-> [k \in {"workArchetype", "privacyLevel"} |->
                     IF k = "workArchetype" THEN "coder" ELSE "smart"]]>>

SavedFile ==
    <<[baselines  |-> <<[DefaultBaselines EXCEPT !["focus_keystrokes_per_min"] = <<48, 1>>]>>,
       thresholds |-> <<Update(DefaultThresholds, [k \in {"focus_percentile"} |-> <<60, 1>>])>>,
       fields     |-> NoFields]>>

ProfileFiles == {<<>>, OnboardingFile, SavedFile}

\* yesterday's samples: none, too few for a calibration, enough for one
Yesterdays ==
    {<<>>, Samples(<<Block(Work, 3, 5)>>), Samples(<<Block(Work, 6, 5), Block(Flip, 6, 5)>>)}

\* no call made yet
AnalysisAtStart ==
    /\ pc = "start"
    /\ raised = <<>>
    /\ raw_data = <<>>
    /\ reference_data = <<>>
    /\ micro_states = <<>>
    /\ activity_threshold = <<>>
    /\ timeline = <<>>
    /\ result = <<>>
    /\ compressed = <<>>
    /\ response = <<>>
    /\ replay_segments = <<>>
    /\ passport_data = <<>>
    /\ category = <<>>
    /\ compressed_lines = <<>>

Init ==
    /\ \/ (InitMicro \/ InitThreshold \/ InitBlocks \/ InitLong \/ InitMacro
            \/ InitDegenerate \/ InitStored \/ InitReplay \/ InitReport \/ InitBars
            \/ InitLog)
          /\ app_name = <<>>
       \/ InitLabel
    /\ AnalysisAtStart
    /\ TrackerAtRest
    /\ ProfileAtRest

\* the request times: every sample is within 24 hours, or the ones before 301 s are not
Nows == {DAY_SECONDS, DAY_SECONDS + GAP_THRESHOLD + 1}

\* the starts of the day of a replay request: every sample is of today, or the
\* ones before 5 s are not
TodayStarts == {0, 5}

Next ==
    \/ ProcessDay
    \/ \E now \in Nows : GetTodayData(now)
    \/ \E today_start \in TodayStarts : GetReplayData(today_start)
    \/ GetPassportData
    \/ MapAppToCategory
    \/ GenerateReflection

Spec == Init /\ [][Next]_vars

\* The tracker runs from time t on, and one GET /api/today is served.
StartTimes == {2 * 3600 - TRACKING_INTERVAL, 10 * 3600}

TrackerInit ==
    /\ \E t \in StartTimes : TrackerAt(t)
    /\ ProfileAtRest
    /\ data = <<>>
    /\ reference = <<>>
    /\ focus_percentile = <<>>
    /\ hash_order = HashOrderA
    /\ request = "today"
    /\ app_name = <<>>
    /\ AnalysisAtStart

TrackerNext ==
    \/ \E t \in Listeners : \E counter \in CountersOf(t) : CallbackEnter(t, counter)
    \/ \E t \in Listeners : CallbackStore(t)
    \/ \E current_window \in Windows : LoopCaptureEnter(current_window)
    \/ LoopCapture
    \/ LoopSleep
    \/ LoopFlushEnter
    \/ LoopAppend
    \/ LoopReset
    \/ ReaderGetData
    \/ ReaderFilter
    \/ ReaderProcess

TrackerSpec == TrackerInit /\ [][TrackerNext]_vars

\* The analyzer is constructed, and profile calls follow.
ProfileInit ==
    /\ \E file \in ProfileFiles : ProfileAfterInit(file)
    /\ TrackerAtRest
    /\ data \in Yesterdays
    /\ reference = <<>>
    /\ focus_percentile = GetFocusPercentile(heap[analyzer_thresholds])
    /\ hash_order = HashOrderA
    /\ request = "profile"
    /\ app_name = <<>>
    /\ AnalysisAtStart

ProfileNext ==
    \/ \E outcome \in Outcomes : CalibrateAndReflect(outcome)
    \/ ReloadProfile
    \/ Logout

ProfileSpec == ProfileInit /\ [][ProfileNext]_vars

---------------------------------------------------------------------------
(* Properties *)

Returned == pc \in {"processed", "served"}

\* the activity score of a sample, as the data model states it
Score(s) == s.keystrokes + 2 * s.mouse_clicks + s.mouse_scrolls

\* the samples the threshold is calibrated on, and their non-idle scores
Calibration == IF reference_data # <<>> THEN reference_data ELSE raw_data
CalibrationScores ==
    LET active == SelectSeq(Calibration, LAMBDA s : ~s.is_idle)
    IN  [k \in DOMAIN active |-> Score(active[k])]

\* v is the element at 0-based index idx of xs sorted in descending order
IsNthLargest(xs, idx, v) ==
    /\ Cardinality({k \in DOMAIN xs : xs[k] > v}) <= idx
    /\ idx < Cardinality({k \in DOMAIN xs : xs[k] >= v})

Stamps(points) == [k \in DOMAIN points |-> points[k].timestamp]

\* C1: the returned timeline has exactly one point that is not an IdleGap per input
\* sample, in input order and with that sample's timestamp; so has the macro
\* timeline before gap insertion.
C1_OnePointPerSample ==
    Returned =>
        /\ Stamps(timeline) = Stamps(raw_data)
        /\ \A k \in DOMAIN timeline : timeline[k].state # "IdleGap"
        /\ Stamps(SelectSeq(result, LAMBDA p : p.state # "IdleGap")) = Stamps(raw_data)

\* a call on several samples whose returned timeline holds gap markers as well
C1_Witness ==
    /\ pc = "processed"
    /\ Len(raw_data) >= 7
    /\ Len(result) > Len(raw_data)

\* C2: no point of the macro timeline at index i <= 180 is a Recovery Point.
C2_NoEarlyRecovery ==
    \A k \in DOMAIN timeline :
        (k - 1) <= 180 => timeline[k].state # "Recovery Point"

\* index 180 is Idle after 180 active points, and index 181 is a Recovery Point
C2_Witness ==
    /\ Returned
    /\ Len(timeline) >= 182
    /\ \A k \in 1..180 : timeline[k].state \in ActiveStates
    /\ timeline[181].state = "Idle"
    /\ timeline[182].state = "Recovery Point"

\* C3: the focus threshold that process_day computes is strictly positive, with or
\* without a percentile.
C3_ThresholdPositive ==
    activity_threshold # <<>> => activity_threshold[1] > 0

\* C4: for a fixed reference set the threshold is non-decreasing in the percentile:
\* the threshold computed under P is at most the one computed under any P2 >= P.
C4_MonotoneInPercentile ==
    (activity_threshold # <<>> /\ focus_percentile # <<>>) =>
        \A P2 \in Percentiles :
            focus_percentile[1] <= P2 =>
                activity_threshold[1] <= ActivityThreshold(Calibration, <<P2>>)

Delta(points, k) == points[k + 1].timestamp - points[k].timestamp

\* the position in the returned timeline of macro point k, if a marker precedes
\* every point that comes more than 300 s after its predecessor
PlaceWithGaps(k) == k + Cardinality({j \in 1..(k - 1) : Delta(timeline, j) > 300})

\* C6: a gap marker is inserted between two consecutive points exactly when their
\* timestamps differ by more than 300 s; it is an IdleGap at the midpoint (whole
\* seconds, rounded down), strictly between the two, with gap_duration the
\* difference and zero metrics; every real point is kept.  Points at 0 and 400
\* give one IdleGap at 200 with gap_duration 400.
C6_GapMarkers ==
    Returned =>
        /\ Len(result) = IF timeline = <<>> THEN 0 ELSE PlaceWithGaps(Len(timeline))
        /\ \A k \in DOMAIN timeline : result[PlaceWithGaps(k)] = timeline[k]
        /\ \A k \in 1..(Len(timeline) - 1) :
              LET d == Delta(timeline, k)
                  m == result[PlaceWithGaps(k) + 1]
              IN  IF d > 300
                  THEN /\ PlaceWithGaps(k + 1) = PlaceWithGaps(k) + 2
                       /\ m.state = "IdleGap"
                       /\ m.timestamp = (timeline[k].timestamp + timeline[k + 1].timestamp) \div 2
                       /\ timeline[k].timestamp < m.timestamp
                       /\ m.timestamp < timeline[k + 1].timestamp
                       /\ m.gap_duration = d
                       /\ m.metrics = [keys |-> 0, clicks |-> 0, scrolls |-> 0]
                  ELSE PlaceWithGaps(k + 1) = PlaceWithGaps(k) + 1
        /\ Stamps(timeline) = <<0, 400>> =>
              /\ Len(result) = 3
              /\ result[2].state = "IdleGap"
              /\ result[2].timestamp = 200
              /\ result[2].gap_duration = 400

\* gaps of exactly 300 s with no marker and a gap of 301 s with its marker
C6_Witness ==
    /\ pc = "processed"
    /\ \E j, k \in 1..(Len(timeline) - 1) :
          /\ Delta(timeline, j) = 300
          /\ Delta(timeline, k) = 301
    /\ Len(result) = Len(timeline) + 1
    /\ \E k \in DOMAIN result : result[k].state = "IdleGap" /\ result[k].gap_duration = 301

\* the maximal run of Idle points of the returned timeline around position k
RunStart(k) ==
    CHOOSE a \in 1..k :
        /\ \A j \in a..k : result[j].state = "Idle"
        /\ a = 1 \/ result[a - 1].state # "Idle"
RunEnd(k) ==
    CHOOSE b \in k..Len(result) :
        /\ \A j \in k..b : result[j].state = "Idle"
        /\ b = Len(result) \/ result[b + 1].state # "Idle"
RunSpan(k) == result[RunEnd(k)].timestamp - result[RunStart(k)].timestamp

\* position k lies in an Idle run that spans more than 1800 s
InLongRun(k) == result[k].state = "Idle" /\ RunSpan(k) > 1800
\* the positions that compression removes: the long runs but for their first point
Folded(k) == InLongRun(k) /\ RunStart(k) # k
PlaceCompressed(k) == k - Cardinality({j \in 1..(k - 1) : Folded(j)})

\* C7: on the display path a maximal run of Idle points is replaced by one IdleGap
\* exactly when it spans more than 1800 s; the IdleGap has the run's start
\* timestamp and gap_duration the span; every other point is output unchanged and
\* in order.
C7_IdleCompression ==
    (pc = "served" /\ raw_data # <<>>) =>
        /\ Len(compressed) = Len(result) - Cardinality({j \in DOMAIN result : Folded(j)})
        /\ \A k \in DOMAIN result :
              IF InLongRun(k)
              THEN RunStart(k) = k =>
                      LET g == compressed[PlaceCompressed(k)]
                      IN  /\ g.state = "IdleGap"
                          /\ g.timestamp = result[k].timestamp
                          /\ g.gap_duration = RunSpan(k)
              ELSE compressed[PlaceCompressed(k)] = result[k]

\* an Idle run of 1801 s after points that are not Idle has become one IdleGap
C7_Witness ==
    /\ pc = "served"
    /\ \E k \in DOMAIN result : InLongRun(k) /\ RunSpan(k) = 1801
    /\ \E k \in DOMAIN compressed :
          /\ k > 1
          /\ compressed[k].state = "IdleGap"
          /\ compressed[k].gap_duration = 1801
          /\ compressed[k - 1].state \in ActiveStates

\* C8: the displayed timeline has at most 120 points, and a timeline of at most 120
\* points is displayed unchanged.
C8_DownsampleBound ==
    pc = "served" =>
        /\ Len(response) <= 120
        /\ Len(compressed) <= 120 => response = compressed

\* a timeline of more than 120 points was reduced
C8_Witness ==
    /\ pc = "served"
    /\ Len(compressed) > 120
    /\ Len(response) = 120

\* C9: the micro state of a sample is a function of that sample alone: the score is
\* keystrokes + 2*clicks + scrolls, and the state is Idle for an idle sample, else
\* Fragmented for more than 2 window switches, else HighFocus for a score above
\* 5, else LowFocus.
C9_MicroClassification ==
    Returned =>
        /\ Len(micro_states) = Len(raw_data)
        /\ \A k \in DOMAIN raw_data :
              LET s == raw_data[k]
                  m == micro_states[k]
              IN  /\ m.activity_score = Score(s)
                  /\ s.is_idle => m.micro_state = "Idle"
                  /\ (~s.is_idle /\ s.window_switches > 2) => m.micro_state = "Fragmented"
                  /\ (~s.is_idle /\ s.window_switches <= 2 /\ Score(s) > 5)
                        => m.micro_state = "HighFocus"
                  /\ (~s.is_idle /\ s.window_switches <= 2 /\ Score(s) <= 5)
                        => m.micro_state = "LowFocus"
                  /\ (/\ s.keystrokes = 10 /\ s.mouse_clicks = 3 /\ s.mouse_scrolls = 0
                      /\ ~s.is_idle /\ s.window_switches <= 2)
                        => m.activity_score = 16 /\ m.micro_state = "HighFocus"
        /\ \A j, k \in DOMAIN raw_data :
              (/\ raw_data[j].keystrokes = raw_data[k].keystrokes
               /\ raw_data[j].mouse_clicks = raw_data[k].mouse_clicks
               /\ raw_data[j].mouse_scrolls = raw_data[k].mouse_scrolls
               /\ raw_data[j].window_switches = raw_data[k].window_switches
               /\ raw_data[j].is_idle = raw_data[k].is_idle)
                 => /\ micro_states[j].micro_state = micro_states[k].micro_state
                    /\ micro_states[j].activity_score = micro_states[k].activity_score

\* a sample that is not idle, with at most 2 switches, mouse movement and a score of
\* exactly 5, is LowFocus
C9_Witness ==
    /\ pc = "processed"
    /\ \E k \in DOMAIN raw_data :
          /\ ~raw_data[k].is_idle
          /\ raw_data[k].window_switches <= 2
          /\ raw_data[k].mouse_distance > 0
          /\ Score(raw_data[k]) = 5
          /\ micro_states[k].micro_state = "LowFocus"

\* C10: without a percentile the threshold is the element at index floor(len*45/100)
\* of the non-idle reference scores in descending order, 5.0 in place of a 0 there;
\* the scores 9, 8, ..., 0 give index 4 and the threshold 5.
C10_NaturalPercentile ==
    (activity_threshold # <<>> /\ focus_percentile = <<>> /\ CalibrationScores # <<>>) =>
        LET idx == (Len(CalibrationScores) * 45) \div 100
        IN  /\ \E k \in DOMAIN CalibrationScores :
                  /\ IsNthLargest(CalibrationScores, idx, CalibrationScores[k])
                  /\ activity_threshold[1] =
                        IF CalibrationScores[k] = 0 THEN 5 ELSE CalibrationScores[k]
            /\ CalibrationScores = <<9, 8, 7, 6, 5, 4, 3, 2, 1, 0>> =>
                  idx = 4 /\ activity_threshold[1] = 5

\* the scores 9, 8, ..., 0 calibrated without a percentile
C10_Witness ==
    /\ Returned
    /\ focus_percentile = <<>>
    /\ CalibrationScores = <<9, 8, 7, 6, 5, 4, 3, 2, 1, 0>>
    /\ activity_threshold = <<5>>

\* the numbers of Focus Peak and of Drift Zone points of the returned timeline
FocusCount == Cardinality({k \in DOMAIN result : result[k].state = "Focus Peak"})
DriftCount == Cardinality({k \in DOMAIN result : result[k].state = "Drift Zone"})

\* C11: the stability score of the passport is focus / (focus + drift) over the
\* counts of Focus Peak and Drift Zone points; it lies in [0, 1] and is 0 when
\* there is neither; the report carries it rounded to hundredths.
C11_StabilityScore ==
    (pc = "reported" /\ passport_data # <<>>) =>
        LET score  == passport_data[1].stability_score
            shown  == passport_data[1].attentionStabilityScore
            active == FocusCount + DriftCount
        IN  /\ score[2] > 0
            /\ active > 0 => score[1] * active = FocusCount * score[2]
            /\ active = 0 => score[1] = 0
            /\ 0 <= score[1] /\ score[1] <= score[2]
            /\ shown \in 0..100
            /\ 2 * (shown * score[2] - 100 * score[1]) <= score[2]
            /\ 2 * (100 * score[1] - shown * score[2]) <= score[2]

\* a report over Focus Peak, Drift Zone and other points
C11_Witness ==
    /\ pc = "reported"
    /\ passport_data # <<>>
    /\ FocusCount > 0
    /\ DriftCount > 0
    /\ Len(result) > FocusCount + DriftCount
    /\ passport_data[1].stability_score = Frac(FocusCount, FocusCount + DriftCount)

\* the Focus Peak segments of the replay
PeakSegments == {k \in DOMAIN replay_segments : replay_segments[k].state = "Focus Peak"}

\* C12: when the replay has a Focus Peak segment, exactly one segment is flagged
\* is_peak_moment: the first Focus Peak segment of maximal intensity.
C12_SinglePeakMoment ==
    (pc = "replayed" /\ PeakSegments # {}) =>
        LET best == CHOOSE k \in PeakSegments :
                        /\ \A j \in PeakSegments :
                              ~FracLess(replay_segments[k].intensity, replay_segments[j].intensity)
                        /\ \A j \in PeakSegments :
                              j < k => FracLess(replay_segments[j].intensity,
                                                replay_segments[k].intensity)
        IN  {k \in DOMAIN replay_segments : replay_segments[k].is_peak_moment} = {best}

\* the percentile is absent or in [30, 80]
PercentileInRange ==
    focus_percentile = <<>> \/ (30 <= focus_percentile[1] /\ focus_percentile[1] <= 80)

\* C13: with no percentile or one in [30, 80], no call of process_day, of the
\* replay or of the passport ends with an exception, whatever the samples; every
\* macro window holds at least one sample, so the averages divide by a count
\* that is not zero; no samples give an empty timeline and no segments.
C13_NeverRaises ==
    PercentileInRange =>
        /\ pc # "raised"
        /\ raised = <<>>
        /\ \A i \in 0..(Len(raw_data) - 1) :
              Max(0, i - 30) < Min(Len(raw_data), i + 30)
        /\ (pc \in {"processed", "served", "replayed", "reported"} /\ raw_data = <<>>) =>
              /\ timeline = <<>>
              /\ result = <<>>
              /\ response = <<>>
              /\ replay_segments = <<>>
              /\ passport_data = <<>>

\* a report made, under a percentile, of samples that are idle or without any
\* activity, one of them with a blank label
C13_Witness ==
    /\ pc = "reported"
    /\ focus_percentile # <<>>
    /\ PercentileInRange
    /\ raw_data # <<>>
    /\ \A k \in DOMAIN raw_data : raw_data[k].is_idle \/ Score(raw_data[k]) = 0
    /\ \E k \in DOMAIN raw_data : raw_data[k].active_window = ""
    /\ passport_data # <<>>

\* the keyword table as a list of entries, in table order
KeywordEntries ==
    [n \in 1..Sum([c \in DOMAIN categories |-> Len(categories[c].keywords)]) |->
        LET c == CHOOSE d \in DOMAIN categories :
                     /\ Sum([e \in 1..(d - 1) |-> Len(categories[e].keywords)]) < n
                     /\ n <= Sum([e \in 1..d |-> Len(categories[e].keywords)])
        IN  [category |-> categories[c].category,
             keyword  |-> categories[c].keywords[
                              n - Sum([e \in 1..(c - 1) |-> Len(categories[e].keywords)])]]]

\* C14: the category of a label is that of the first entry of the keyword table
\* whose keyword occurs in the label, letter case ignored on both sides; it is
\* other for the blank label, for Unknown and when no keyword occurs.
C14_FirstKeywordCategory ==
    pc = "mapped" =>
        LET hits == {n \in DOMAIN KeywordEntries :
                        Contains(Lower(app_name), Lower(KeywordEntries[n].keyword))}
        IN  /\ category[1] \in {"editor", "browser", "messaging", "video", "design", "game",
                                "notes", "other"}
            /\ category[1] =
                  IF app_name = <<>> \/ app_name = Spelling("Unknown") \/ hits = {} THEN "other"
                  ELSE KeywordEntries[CHOOSE n \in hits : \A m \in hits : n <= m].category

\* the labels of the input that the log is to hide: total activity below 10, no
\* media keyword in the name, and no idle sample
HiddenApps ==
    {a \in {data[k].active_window : k \in DOMAIN data} :
        /\ Sum([k \in DOMAIN data |->
                  IF data[k].active_window = a
                  THEN data[k].keystrokes + data[k].mouse_clicks + data[k].mouse_scrolls
                  ELSE 0]) < 10
        /\ ~\E k \in DOMAIN KEEP_APPS : Contains(Lower(Spelling(a)), KEEP_APPS[k])
        /\ \A k \in DOMAIN data : data[k].active_window = a => ~data[k].is_idle}

\* C15: in the raw-activity log the name of an app with total activity below 10
\* and no media keyword appears in no line, wherever its (non-idle) samples are
\* in the input; the name of every other app of the input appears.
C15_QuietAppsHidden ==
    pc = "reflected" =>
        \A k \in DOMAIN data :
            LET a == data[k].active_window
            IN  IF a \in HiddenApps
                THEN \A n \in DOMAIN compressed_lines : compressed_lines[n].app # a
                ELSE \E n \in DOMAIN compressed_lines : compressed_lines[n].app = a

\* the samples of the macro window of index i, as positions of raw_data
WindowOf(i) == (Max(0, i - 30) + 1)..Min(Len(raw_data), i + 30)
IdleIn(i) == Cardinality({j \in WindowOf(i) : raw_data[j].is_idle})
ActivityIn(i) ==
    Sum([j \in 1..Cardinality(WindowOf(i)) |-> Score(raw_data[Max(0, i - 30) + j])])
SwitchesIn(i) ==
    Sum([j \in 1..Cardinality(WindowOf(i)) |-> raw_data[Max(0, i - 30) + j].window_switches])

\* the points of [i-180, i) of the macro timeline with an active state
ActiveBefore(i) ==
    Cardinality({k \in DOMAIN timeline :
                    /\ i - 180 <= k - 1 /\ k - 1 < i
                    /\ timeline[k].state \in {"Focus Peak", "Light Focus", "Drift Zone"}})

\* C16: the point of index i is a Recovery Point (sub_type Recharge) exactly when
\* i > 180, its window is more than 80% idle and at least 127 of the 180 points
\* before it are Focus Peak, Light Focus or Drift Zone.
C16_RecoveryNeeds127 ==
    Returned =>
        \A k \in DOMAIN timeline :
            LET i == k - 1
            IN  /\ timeline[k].state = "Recovery Point" <=>
                      /\ i > 180
                      /\ 5 * IdleIn(i) > 4 * Cardinality(WindowOf(i))
                      /\ ActiveBefore(i) >= 127
                /\ timeline[k].state = "Recovery Point" => timeline[k].sub_type = "Recharge"

\* the macro rule that the window of index i matches first
MacroRule(i) ==
    LET len == Cardinality(WindowOf(i))
        T   == activity_threshold[1]
    IN  IF 5 * IdleIn(i) > 4 * len THEN <<"Idle", "Generic">>
        ELSE IF ActivityIn(i) >= T * len THEN <<"Focus Peak", "Deep Work">>
        ELSE IF 2 * ActivityIn(i) >= T * len THEN <<"Light Focus", "Active Work">>
        ELSE IF SwitchesIn(i) > 2 * len THEN <<"Drift Zone", "Fragmented">>
        ELSE <<"Drift Zone", "Passive">>

\* C17: the macro state of index i is given by the first rule that the window
\* [max(0,i-30), min(n,i+30)) matches: idle fraction > 0.8, Idle; average
\* activity >= threshold, Focus Peak; >= half the threshold, Light Focus; average
\* switches > 2, Drift Zone/Fragmented; else Drift Zone/Passive.  An Idle point
\* may have been made a Recovery Point.  A window that is exactly 80% idle is not
\* Idle.
C17_MacroRules ==
    Returned =>
        \A k \in DOMAIN timeline :
            LET p == timeline[k]
                i == k - 1
            IN  /\ \/ <<p.state, p.sub_type>> = MacroRule(i)
                   \/ /\ MacroRule(i)[1] = "Idle"
                      /\ <<p.state, p.sub_type>> = <<"Recovery Point", "Recharge">>
                /\ 5 * IdleIn(i) = 4 * Cardinality(WindowOf(i)) => p.state # "Idle"

\* a window more than 80% idle whose average activity reaches the threshold
C17_Witness ==
    /\ pc = "processed"
    /\ \E k \in DOMAIN timeline :
          /\ 5 * IdleIn(k - 1) > 4 * Cardinality(WindowOf(k - 1))
          /\ ActivityIn(k - 1) >= activity_threshold[1] * Cardinality(WindowOf(k - 1))
          /\ activity_threshold[1] > 0
          /\ timeline[k].state = "Idle"

\* the value of xs with the highest count that occurs first in xs
FirstSeenMode(xs) ==
    xs[CHOOSE k \in DOMAIN xs :
           /\ \A j \in DOMAIN xs : Count(xs, xs[j]) <= Count(xs, xs[k])
           /\ \A j \in 1..(k - 1) : Count(xs, xs[j]) < Count(xs, xs[k])]

\* the non-blank labels of the macro window of index i, in input order
LabelsIn(i) ==
    LET inside == SubSeq(raw_data, Max(0, i - 30) + 1, Min(Len(raw_data), i + 30))
        named  == SelectSeq(inside, LAMBDA s : s.active_window # "")
    IN  [n \in DOMAIN named |-> named[n].active_window]

\* C18: the dominant_app of a point is, among the labels of its window with the
\* highest count, the one that occurs first in input order.
C18_FirstSeenMode ==
    Returned =>
        \A k \in DOMAIN timeline :
            LabelsIn(k - 1) # <<>> =>
                timeline[k].dominant_app = FirstSeenMode(LabelsIn(k - 1))

\* C19: under a percentile P the threshold is the element at index
\* min(floor(len*P/100), len-1) of the non-idle reference scores in descending
\* order, and the calibration does not fail, P = 100 included.
C19_ClampedIndex ==
    (/\ pc \in {"processed", "served", "replayed", "reported", "raised"}
     /\ focus_percentile # <<>>
     /\ CalibrationScores # <<>>) =>
        LET len == Len(CalibrationScores)
            idx == Min((len * focus_percentile[1]) \div 100, len - 1)
        IN  /\ raised = <<>>
            /\ activity_threshold # <<>>
            /\ IsNthLargest(CalibrationScores, idx, activity_threshold[1])

\* the positions of the returned timeline at which a run of equal states begins
RunStarts == {j \in DOMAIN result : j = 1 \/ result[j].state # result[j - 1].state}
NthRunStart(n) == CHOOSE j \in RunStarts : Cardinality({m \in RunStarts : m < j}) = n - 1
NthRunEnd(n) == IF n = Cardinality(RunStarts) THEN Len(result) ELSE NthRunStart(n + 1) - 1

\* the fold v := (v + x) / 2 over the intensities of result[lo..hi], from v
RECURSIVE HalvingFold(_, _, _)
HalvingFold(lo, hi, v) ==
    IF hi < lo THEN v
    ELSE IF hi = lo THEN FracMean(v, result[lo].intensity)
    ELSE LET mid  == (lo + hi) \div 2
             left == HalvingFold(lo, mid, v)
         IN  IF left[2] > 0 THEN HalvingFold(mid + 1, hi, left) ELSE left

\* C20: the replay segments are the run-length encoding of the states of the
\* timeline: one segment per maximal run, in order, adjacent segments of
\* different states; a segment has the timestamps of the first and the last
\* point of its run, the dominant_app of the first, and as intensity the fold
\* v := (v + x) / 2 over the run from the first point's intensity.
C20_RunLengthSegments ==
    pc = "replayed" =>
        /\ Len(replay_segments) = Cardinality(RunStarts)
        /\ \A n \in DOMAIN replay_segments :
              LET seg == replay_segments[n]
                  a   == NthRunStart(n)
                  b   == NthRunEnd(n)
              IN  /\ a <= b
                  /\ \A j \in a..b : result[j].state = seg.state
                  /\ n > 1 => replay_segments[n - 1].state # seg.state
                  /\ seg.start_time = result[a].timestamp
                  /\ seg.end_time = result[b].timestamp
                  /\ seg.dominant_app = result[a].dominant_app
                  /\ seg.intensity = HalvingFold(a + 1, b, result[a].intensity)

\* a replay with a segment of several points of different intensities
C20_Witness ==
    /\ pc = "replayed"
    /\ Len(replay_segments) >= 3
    /\ \E n \in DOMAIN replay_segments :
          /\ replay_segments[n].start_time < replay_segments[n].end_time
          /\ \E j, k \in NthRunStart(n)..NthRunEnd(n) :
                result[j].intensity # result[k].intensity

\* the positions of the returned timeline at which a run of Focus Peak points begins
FocusRunStarts ==
    {j \in DOMAIN result :
        result[j].state = "Focus Peak" /\ (j = 1 \/ result[j - 1].state # "Focus Peak")}

\* the number of points of the run of Focus Peak points that begins at position a
FocusRunLength(a) ==
    LET stops == {k \in a..Len(result) :
                     k = Len(result) \/ result[k + 1].state # "Focus Peak"}
    IN  (CHOOSE k \in stops : \A m \in stops : k <= m) - a + 1

LongestFocusRun ==
    LET lengths == {FocusRunLength(a) : a \in FocusRunStarts} \cup {0}
    IN  CHOOSE n \in lengths : \A m \in lengths : m <= n

InHour(st, h) ==
    Cardinality({k \in DOMAIN result :
                    result[k].state = st /\ (result[k].timestamp \div 3600) % 24 = h})

\* the lowest hour whose count of points of state st is maximal
LowestBusiestHour(st) ==
    CHOOSE h \in 0..23 :
        /\ \A g \in 0..23 : InHour(st, g) <= InHour(st, h)
        /\ \A g \in 0..23 : InHour(st, g) = InHour(st, h) => h <= g

\* C23: the best hour is the lowest hour among those with the most Focus Peak
\* points and the toughest hour the lowest among those with the most Drift Zone
\* points, 0 when there is no such point; the three hourly maps count every
\* Focus Peak, Drift Zone and Recovery Point point in the hour of its timestamp,
\* once.
C23_BestAndToughestHour ==
    (pc = "reported" /\ passport_data # <<>>) =>
        LET report == passport_data[1]
            total(st) == Cardinality({k \in DOMAIN result : result[k].state = st})
        IN  /\ report.bestHourOfDay = LowestBusiestHour("Focus Peak")
            /\ report.toughestHourOfDay = LowestBusiestHour("Drift Zone")
            /\ total("Focus Peak") = 0 => report.bestHourOfDay = 0
            /\ total("Drift Zone") = 0 => report.toughestHourOfDay = 0
            /\ \A h \in 0..23 :
                  /\ report.hourlyFocusMap[h] = InHour("Focus Peak", h)
                  /\ report.hourlyDriftMap[h] = InHour("Drift Zone", h)
                  /\ report.hourlyRecoveryMap[h] = InHour("Recovery Point", h)
            /\ Sum([n \in 1..24 |-> report.hourlyFocusMap[n - 1]]) = total("Focus Peak")
            /\ Sum([n \in 1..24 |-> report.hourlyDriftMap[n - 1]]) = total("Drift Zone")
            /\ Sum([n \in 1..24 |-> report.hourlyRecoveryMap[n - 1]]) = total("Recovery Point")

\* a report whose best hour is 1 o'clock, tied with 2 o'clock and ahead of 0 o'clock
C23_Witness ==
    /\ pc = "reported"
    /\ passport_data # <<>>
    /\ passport_data[1].bestHourOfDay = 1
    /\ InHour("Focus Peak", 0) > 0
    /\ InHour("Focus Peak", 1) > InHour("Focus Peak", 0)
    /\ InHour("Focus Peak", 2) = InHour("Focus Peak", 1)

\* the points of state st of the returned timeline whose app is of category cat
OfCategory(st, cat) ==
    {k \in DOMAIN result :
        /\ result[k].state = st
        /\ map_app_to_category(Spelling(result[k].dominant_app)) = cat}

\* among the points ks, the number of those with the app label app
WithApp(ks, app) == Cardinality({k \in ks : result[k].dominant_app = app})

\* the sum of the shares of the first n entries
RECURSIVE ShareSum(_, _)
ShareSum(entries, n) ==
    IF n = 0 THEN <<0, 1>> ELSE FracAdd(ShareSum(entries, n - 1), entries[n].share)

\* a report with three categories of focus, of different shares, the first one
\* not that of the first Focus Peak point, and a nemesis
C24_Witness ==
    /\ pc = "reported"
    /\ passport_data # <<>>
    /\ Len(passport_data[1].focusByCategory) = 3
    /\ \A n \in 1..2 : FracLess(passport_data[1].focusByCategory[n + 1].share,
                                 passport_data[1].focusByCategory[n].share)
    /\ \E k \in DOMAIN result :
          /\ result[k].state = "Focus Peak"
          /\ \A j \in 1..(k - 1) : result[j].state # "Focus Peak"
          /\ map_app_to_category(Spelling(result[k].dominant_app))
                # passport_data[1].focusByCategory[1].category
    /\ passport_data[1].nemesisCategory = <<"browser">>

\* C24: focusByCategory has one entry per category with a Focus Peak point, with
\* share = the category's Focus Peak count / the Focus Peak count; the shares sum
\* to 1 and do not increase along the list; the dominant_app of an entry is a
\* most frequent app label of its category among the Focus Peak points.  The
\* nemesisCategory is a category with the most Drift Zone points (None without
\* any) and nemesisApp a most frequent app label of it.
C24_FocusByCategory ==
    (pc = "reported" /\ passport_data # <<>>) =>
        LET report  == passport_data[1]
            entries == report.focusByCategory
            focus   == {k \in DOMAIN result : result[k].state = "Focus Peak"}
            drift   == {k \in DOMAIN result : result[k].state = "Drift Zone"}
            cats(ks) == {map_app_to_category(Spelling(result[k].dominant_app)) : k \in ks}
        IN  /\ {entries[n].category : n \in DOMAIN entries} = cats(focus)
            /\ Len(entries) = Cardinality(cats(focus))
            /\ \A n \in DOMAIN entries :
                  LET own == OfCategory("Focus Peak", entries[n].category)
                  IN  /\ entries[n].share = Frac(Cardinality(own), Cardinality(focus))
                      /\ WithApp(own, entries[n].dominant_app) > 0
                      /\ \A k \in own :
                            WithApp(own, result[k].dominant_app)
                                <= WithApp(own, entries[n].dominant_app)
            /\ entries # <<>> => ShareSum(entries, Len(entries)) = <<1, 1>>
            /\ \A n \in 1..(Len(entries) - 1) :
                  ~FracLess(entries[n].share, entries[n + 1].share)
            /\ drift = {} <=> report.nemesisCategory = <<>>
            /\ drift = {} => report.nemesisApp = "Unknown"
            /\ drift # {} =>
                  LET own == OfCategory("Drift Zone", report.nemesisCategory[1])
                  IN  /\ own # {}
                      /\ \A c \in cats(drift) :
                            Cardinality(OfCategory("Drift Zone", c)) <= Cardinality(own)
                      /\ WithApp(own, report.nemesisApp) > 0
                      /\ \A k \in own :
                            WithApp(own, result[k].dominant_app)
                                <= WithApp(own, report.nemesisApp)

\* C26: the metrics of every point that process_day makes of a sample are the
\* keystrokes, mouse_clicks and mouse_scrolls of that sample.
C26_MetricsOfSample ==
    Returned =>
        \A k \in DOMAIN timeline :
            /\ timeline[k].metrics.keys = raw_data[k].keystrokes
            /\ timeline[k].metrics.clicks = raw_data[k].mouse_clicks
            /\ timeline[k].metrics.scrolls = raw_data[k].mouse_scrolls

\* the point at position k of the macro timeline is Idle or a Recovery Point
Resting(k) == timeline[k].state \in {"Idle", "Recovery Point"}

\* the position at which the run of resting points that holds position k begins
RestStart(k) ==
    CHOOSE a \in 1..k :
        /\ \A j \in a..k : Resting(j)
        /\ a = 1 \/ ~Resting(a - 1)

\* C27: along a maximal run of Idle and Recovery Point points of the macro
\* timeline the active count of the lookback does not increase; once a point of
\* index > 180 is Idle, every later point of the run is Idle; no Recovery Point
\* is later than the 54th position of its run.
C27_RecoveryEndsInRun ==
    Returned =>
        \A k \in DOMAIN timeline :
            Resting(k) =>
                /\ (k < Len(timeline) /\ Resting(k + 1)) => ActiveBefore(k) <= ActiveBefore(k - 1)
                /\ (timeline[k].state = "Idle" /\ k - 1 > lookback) =>
                      \A j \in (k + 1)..Len(timeline) :
                          RestStart(j) = RestStart(k) => timeline[j].state = "Idle"
                /\ timeline[k].state = "Recovery Point" => k - RestStart(k) + 1 <= 54

\* C28: for more than 120 input points the downsampler returns 120 points; point
\* k is made of the input indices floor(k*n/120) .. floor((k+1)*n/120) - 1, which
\* are at least one, and these ranges cover the input; it has the timestamp, the
\* dominant_app and the metrics of the first of them and the mean of their
\* intensities; the timestamps keep the input order.
C28_DownsampleBuckets ==
    (pc = "served" /\ Len(compressed) > MAX_BARS) =>
        LET n == Len(compressed)
        IN  /\ Len(response) = MAX_BARS
            /\ \A k \in 0..(MAX_BARS - 1) :
                  LET lo    == (k * n) \div MAX_BARS
                      hi    == ((k + 1) * n) \div MAX_BARS
                      total == FracSumRange(compressed, lo + 1, hi)
                  IN  /\ lo < hi
                      /\ k = MAX_BARS - 1 => hi = n
                      /\ response[k + 1].timestamp = compressed[lo + 1].timestamp
                      /\ response[k + 1].dominant_app = compressed[lo + 1].dominant_app
                      /\ response[k + 1].metrics = compressed[lo + 1].metrics
                      /\ response[k + 1].intensity = Frac(total[1], total[2] * (hi - lo))
            /\ \A k \in 1..(MAX_BARS - 1) : response[k].timestamp <= response[k + 1].timestamp

\* the replies of ReplyTexts that write a number, with the number in tenths
NumberTexts ==
    {<<"5", "5">>,
     <<" ", "6", "0", "\n">>,
     <<"2", "5">>,
     <<"9", "5">>,
     <<"3", "0">>,
     <<"8", "0">>,
     <<"-", "5">>,
     <<"2", "5", ".", "5">>,
     <<"9", "9", ".", "9">>,
     <<"5", "5", ".", "0">>,
     <<"+", "7", "0">>}

TenthsOf(text) ==
    CASE text = <<"5", "5">> -> 550
      [] text = <<" ", "6", "0", "\n">> -> 600
      [] text = <<"2", "5">> -> 250
      [] text = <<"9", "5">> -> 950
      [] text = <<"3", "0">> -> 300
      [] text = <<"8", "0">> -> 800
      [] text = <<"-", "5">> -> -50
      [] text = <<"2", "5", ".", "5">> -> 255
      [] text = <<"9", "9", ".", "9">> -> 999
      [] text = <<"5", "5", ".", "0">> -> 550
      [] text = <<"+", "7", "0">> -> 700

\* the replies of ReplyTexts that write plus infinity, minus infinity, no number
AboveAllTexts == {<<"i", "n", "f">>, <<"I", "n", "f", "i", "n", "i", "t", "y">>}
BelowAllTexts == {<<"-", "i", "n", "f">>}
NoNumberTexts == {<<>>, <<"H", "i", "g", "h">>, <<"5", " ", "5">>, <<"1", ".", "2", ".", "3">>, <<".">>}

\* the percentile that the analyzer's and the learning engine's profile hold
StoredPercentiles ==
    {heap[heap[analyzer_profile].thresholds]["focus_percentile"],
     heap[heap[learning_profile].thresholds]["focus_percentile"],
     profile_file[1].thresholds[1]["focus_percentile"]}

\* C21: after calibrate_and_reflect the returned percentile is within 30..80,
\* and it is what the profiles and the profile file hold as focus_percentile.
\* It is 75 for fewer than 10 samples.  Else it follows the request to the text
\* service: 55 when the request fails or raises, when the reply is an error, no
\* text or no number; the number of the reply when that is within 30..80, 30
\* when it is below and 80 when it is above (a reply of nan gives a percentile
\* within the range).
C21_CalibrationInRange ==
    profile_pc = "calibrated" =>
        LET p == calibration[1]
        IN  /\ CLAMP_LOW * p[2] <= p[1]
            /\ p[1] <= CLAMP_HIGH * p[2]
            /\ StoredPercentiles = {p}
            /\ Len(data) < MIN_SAMPLES => p = <<TOO_FEW_DEFAULT, 1>> /\ service = <<>>
            /\ Len(data) >= MIN_SAMPLES =>
                 /\ service # <<>>
                 /\ service[1].kind # "text" => p = <<CALIBRATION_FALLBACK, 1>>
                 /\ service[1].kind = "text" =>
                      /\ service[1].text \in NoNumberTexts => p = <<CALIBRATION_FALLBACK, 1>>
                      /\ service[1].text \in AboveAllTexts => p = <<CLAMP_HIGH, 1>>
                      /\ service[1].text \in BelowAllTexts => p = <<CLAMP_LOW, 1>>
                      /\ service[1].text \in NumberTexts =>
                           LET tenths == TenthsOf(service[1].text)
                           IN  p = IF tenths < 10 * CLAMP_LOW THEN <<CLAMP_LOW, 1>>
                                   ELSE IF tenths > 10 * CLAMP_HIGH THEN <<CLAMP_HIGH, 1>>
                                   ELSE Frac(tenths, 10)

\* a reply of 95 was clamped to 80
C21_Witness ==
    /\ profile_pc = "calibrated"
    /\ service = <<[kind |-> "text", text |-> <<"9", "5">>]>>
    /\ calibration = <<<<CLAMP_HIGH, 1>>>>
    /\ focus_percentile = <<CLAMP_HIGH>>

\* C30: a load_profile that finds no profile file returns the thresholds and
\* the baselines of the default profile as LearningEngine.__init__ wrote them,
\* so without focus_percentile, whatever profile calls came before.
C30_DefaultsUntouched ==
    profile_pc = "loaded" /\ profile_file = <<>> =>
        /\ returned_profile[1].thresholds = DefaultThresholds
        /\ returned_profile[1].baselines = DefaultBaselines

\* the threads that use self.lock, and whether one is inside a with block
Threads == Listeners \cup {"loop"}

InBlock(t) ==
    IF t = "loop" THEN loop_pc \in {"capturing", "flushing", "appended"}
    ELSE callback_pc[t] = "loaded"

\* the events of a counter in the first n samples of self.data
RECURSIVE Logged(_, _)
Logged(counter, n) == IF n = 0 THEN 0 ELSE Logged(counter, n - 1) + data[n][counter]

\* the events of a counter that the samples, the suppressed records and the
\* interval record hold; between the append and the reset the interval record
\* is the one that was just appended or suppressed
Counted(counter) ==
    Logged(counter, Len(data)) + suppressed[counter]
    + (IF loop_pc = "appended" THEN 0
       ELSE interval_records[current_interval_data][counter])

C25_ReaderHoldsSnapshot ==
    reader_pc # "start" =>
        /\ data = reader_local.at_call
        /\ reader_pc = "done" /\ reader_local.last_24h_data # <<>> =>
              /\ raw_data = Last24h(reader_local.at_call, reader_local.now)
              /\ reference_data = reader_local.at_call

====
